---- MODULE Spec2Model ----
(***************************************************************************)
(* Model of the EDL processor of highlights_bot (edl.py) with the helpers  *)
(* of util.py it calls, and of its signal fusion (detect_fusion.py).       *)
(*                                                                         *)
(* Units: timestamps of the processor are whole seconds; a confidence is   *)
(* the binary64 number Python holds (see "Python numbers" below).          *)
(* Optional values: None / an absent dict key is <<>>, a present value v   *)
(* is <<v>>.  A clock string "mm:ss" and a timestamp string "HH:MM:SS" are *)
(* the sequence of the integers between the colons.                        *)
(***************************************************************************)
EXTENDS Integers, Sequences, FiniteSets, TLC

\* ---------------------------------------------------------------- bounds
MaxEvents == 3
MaxBatch == 2
MaxWindow == 1
MaxClips == 2
MaxKickoff == 0

\* ------------------------------------------------------- program constants
FirstHalfSeconds == 2940
HalfTimeMinutes == 15

None == <<>>
Some(v) == <<v>>
Val(o) == o[1]

VARIABLES
    events,             \* EDLProcessor.events
    kickoff_time,       \* EDLProcessor.kickoff_time (Optional)
    half_time_marker,   \* EDLProcessor.half_time_marker (Optional)
    full_time_marker,   \* EDLProcessor.full_time_marker (Optional)
    config,             \* EDLProcessor.config: dedupe_window_s, max_clips
    op,                 \* the operation last called
    arg,                \* the argument it was called with
    pre,                \* the processor's fields when that operation was called
    ret,                \* what it returned (or that it raised)
    errors,             \* validation errors logged by it
    warned              \* records it skipped with "Cannot compute abs_ts"

vars == <<events, kickoff_time, half_time_marker, full_time_marker, config,
          op, arg, pre, ret, errors, warned>>

\* ------------------------------------------------------------ util.py
Abs(x) == IF x < 0 THEN -x ELSE x

\* TimeCodeUtils.parse_match_clock: "mm:ss", "hh:mm:ss", a bare number;
\* anything else raises ValueError inside and gives 0.0
parse_match_clock(clock) ==
    IF Len(clock) = 2 THEN clock[1] * 60 + clock[2]
    ELSE IF Len(clock) = 3 THEN clock[1] * 3600 + clock[2] * 60 + clock[3]
    ELSE IF Len(clock) = 1 THEN clock[1]
    ELSE 0

\* TimeCodeUtils.parse_timestamp on a string: exactly three integer parts,
\* anything else raises ValueError inside and gives 0.0
parse_timestamp(ts) ==
    IF Len(ts) = 3 THEN ts[1] * 3600 + ts[2] * 60 + ts[3] ELSE 0

\* TimeCodeUtils.compute_absolute_time with the default ht_duration
compute_absolute_time(half, clock, kickoff) ==
    IF half = 1 THEN kickoff + parse_match_clock(clock)
    ELSE IF half = 2
         THEN kickoff + FirstHalfSeconds + HalfTimeMinutes * 60 + parse_match_clock(clock)
         ELSE kickoff + parse_match_clock(clock)

ValidTypes == {"goal", "big_save", "chance", "foul", "card"}

\* ValidationUtils.validate_event: the error list of one record
validate_event(event) ==
    (IF event.type = None THEN <<"Missing required field: type">> ELSE <<>>)
    \o (IF event.half = None THEN <<"Missing required field: half">> ELSE <<>>)
    \o (IF event.clock = None THEN <<"Missing required field: clock">> ELSE <<>>)
    \o (IF event.type # None /\ Val(event.type) \notin ValidTypes
        THEN <<"Invalid event type">> ELSE <<>>)
    \o (IF event.half # None /\ Val(event.half) \notin {1, 2}
        THEN <<"Invalid half">> ELSE <<>>)

RECURSIVE validate_from(_, _)
validate_from(events_list, i) ==
    IF i > Len(events_list) THEN <<>>
    ELSE LET errs == validate_event(events_list[i])
         IN  [k \in 1..Len(errs) |-> <<i - 1, errs[k]>>] \o validate_from(events_list, i + 1)

\* ValidationUtils.validate_events_file: all errors, tagged with the index
validate_events_file(events_list) == validate_from(events_list, 1)

\* ------------------------------------------ Python numbers (binary64)
\* Python computes the paddings and the scores in IEEE-754 binary64: each
\* operation gives the exact result rounded to 53 significant bits, ties to
\* even.  A number is held exactly, as n / 2^k with n a natural number of
\* any size (its digits in base 2^15, lowest first, <<>> for zero) that is
\* odd unless k = 0.  Only numbers >= 0 occur.
LimbBits == 15
Base == 32768
MantissaBits == 53

\* The operators below bind their operands and intermediate results with
\* v \in {e}, which computes e once where a name defined by LET (or an
\* operand given as an expression) would compute it at each use; the value
\* is then the one element of the set { ... : v \in {e} }.
The(set) == CHOOSE y \in set : TRUE

RECURSIVE Pow2(_)
Pow2(k) == IF k = 0 THEN 1 ELSE 2 * Pow2(k - 1)

\* a without its leading zero digits
BTrim(a) ==
    The({ IF \A i \in 1..Len(v) : v[i] = 0 THEN <<>>
          ELSE SubSeq(v, 1, CHOOSE i \in 1..Len(v) :
                               v[i] # 0 /\ \A j \in (i + 1)..Len(v) : v[j] = 0) :
          v \in {a} })

Limb(a, i) == IF i <= Len(a) THEN a[i] ELSE 0

RECURSIVE BAddFrom(_, _, _, _)
BAddFrom(a, b, i, carry) ==
    IF i > Len(a) /\ i > Len(b) THEN (IF carry = 0 THEN <<>> ELSE <<carry>>)
    ELSE The({ <<limb_sum % Base>> \o BAddFrom(a, b, i + 1, limb_sum \div Base) :
               limb_sum \in {Limb(a, i) + Limb(b, i) + carry} })

BAdd(a, b) == The({ BAddFrom(p[1], p[2], 1, 0) : p \in {<<a, b>>} })

\* a - b for a >= b
RECURSIVE BSubFrom(_, _, _, _)
BSubFrom(a, b, i, borrow) ==
    IF i > Len(a) THEN <<>>
    ELSE The({ <<(limb_diff + Base) % Base>>
               \o BSubFrom(a, b, i + 1, IF limb_diff < 0 THEN 1 ELSE 0) :
               limb_diff \in {a[i] - Limb(b, i) - borrow} })

BSub(a, b) == BTrim(The({ BSubFrom(p[1], p[2], 1, 0) : p \in {<<a, b>>} }))

RECURSIVE BCmpFrom(_, _, _)
BCmpFrom(a, b, i) ==
    IF i = 0 THEN 0
    ELSE IF a[i] > b[i] THEN 1
    ELSE IF a[i] < b[i] THEN -1
    ELSE BCmpFrom(a, b, i - 1)

\* -1, 0, 1 as a < b, a = b, a > b
BCmp(a, b) ==
    The({ IF Len(p[1]) > Len(p[2]) THEN 1
          ELSE IF Len(p[1]) < Len(p[2]) THEN -1
          ELSE BCmpFrom(p[1], p[2], Len(p[1])) :
          p \in {<<a, b>>} })

RECURSIVE BMulSmallFrom(_, _, _, _)
BMulSmallFrom(a, d, i, carry) ==
    IF i > Len(a) THEN (IF carry = 0 THEN <<>> ELSE <<carry>>)
    ELSE The({ <<limb_prod % Base>> \o BMulSmallFrom(a, d, i + 1, limb_prod \div Base) :
               limb_prod \in {a[i] * d + carry} })

\* a * d for a digit d
BMulSmall(a, d) == BTrim(The({ BMulSmallFrom(p[1], p[2], 1, 0) : p \in {<<a, d>>} }))

BShiftLimbs(a, n) ==
    The({ IF p[1] = <<>> THEN <<>> ELSE [i \in 1..p[2] |-> 0] \o p[1] : p \in {<<a, n>>} })

RECURSIVE BMulFrom(_, _, _)
BMulFrom(a, b, i) ==
    IF i > Len(b) THEN <<>>
    ELSE BAdd(BShiftLimbs(BMulSmall(a, b[i]), i - 1), BMulFrom(a, b, i + 1))

BMul(a, b) == BTrim(The({ BMulFrom(p[1], p[2], 1) : p \in {<<a, b>>} }))

\* a * 2^k and floor(a / 2^k)
BShl(a, k) ==
    The({ BShiftLimbs(BMulSmall(p[1], Pow2(p[2] % LimbBits)), p[2] \div LimbBits) :
          p \in {<<a, k>>} })

\* floor(a / low) for a power low of two below Base
BShrBits(a, low) ==
    The({ [i \in 1..Len(p[1]) |->
             (p[1][i] \div p[2]) + (Limb(p[1], i + 1) % p[2]) * (Base \div p[2])] :
          p \in {<<a, low>>} })

BShr(a, k) ==
    BTrim(The({ BShrBits(SubSeq(p[1], p[2] \div LimbBits + 1, Len(p[1])),
                         Pow2(p[2] % LimbBits)) :
                p \in {<<a, k>>} }))

RECURSIVE IntBitLen(_)
IntBitLen(d) == IF d = 0 THEN 0 ELSE 1 + IntBitLen(d \div 2)

BBitLen(a) ==
    The({ IF v = <<>> THEN 0 ELSE (Len(v) - 1) * LimbBits + IntBitLen(v[Len(v)]) :
          v \in {a} })

\* bit i of a, bit 0 the lowest
BBit(a, i) == (Limb(a, i \div LimbBits + 1) \div Pow2(i % LimbBits)) % 2

\* 2a + bit
BDoublePlus(a, bit) ==
    The({ IF bit = 0 THEN twice
          ELSE IF twice = <<>> THEN <<1>>
          ELSE [twice EXCEPT ![1] = @ + 1] :
          twice \in {BAdd(a, a)} })

\* the largest digit q with d * q <= r, for r < d * Base: bisection
RECURSIVE QuotientDigit(_, _, _, _)
QuotientDigit(d, r, lo, hi) ==
    IF lo = hi THEN lo
    ELSE The({ IF BCmp(BMulSmall(d, mid), r) <= 0
               THEN QuotientDigit(d, r, mid, hi)
               ELSE QuotientDigit(d, r, lo, mid - 1) :
               mid \in {(lo + hi + 1) \div 2} })

\* the digit of the quotient for the remainder r so far and the next digit
\* of n, with the remainder it leaves
DivisionStep(d, r, next_digit) ==
    The({ The({ [digit |-> digit, r |-> BSub(part, BMulSmall(d, digit))] :
                digit \in {QuotientDigit(d, part, 0, Base - 1)} }) :
          part \in {BTrim(<<next_digit>> \o r)} })

\* long division, one digit of n at a time from the top: q holds the digits
\* found so far, r the remainder (r < d throughout)
RECURSIVE BDivModFrom(_, _, _, _, _)
BDivModFrom(n, d, i, q, r) ==
    IF i = 0 THEN [q |-> q, r |-> r]
    ELSE The({ BDivModFrom(n, d, i - 1, <<step.digit>> \o q, step.r) :
               step \in {DivisionStep(d, r, n[i])} })

BDivMod(n, d) ==
    The({ [q |-> BTrim(whole.q), r |-> whole.r] :
          whole \in {BDivModFrom(n, d, Len(n), <<>>, <<>>)} })

RECURSIVE TrailingZeros(_)
TrailingZeros(a) ==
    IF a = <<>> THEN 0
    ELSE IF a[1] = 0 THEN LimbBits + TrailingZeros(Tail(a))
    ELSE IF a[1] % 2 = 0 THEN 1 + TrailingZeros(<<a[1] \div 2>>)
    ELSE 0

Min(a, b) == IF a <= b THEN a ELSE b
Max(a, b) == IF a >= b THEN a ELSE b

\* the number m / 2^s (s may be negative) in the form n / 2^k
Number(m, s) ==
    The({ IF p[1] = <<>> THEN [n |-> <<>>, k |-> 0]
          ELSE IF p[2] <= 0 THEN [n |-> BShl(p[1], -p[2]), k |-> 0]
          ELSE The({ [n |-> BShr(p[1], zeros), k |-> p[2] - zeros] :
                     zeros \in {Min(TrailingZeros(p[1]), p[2])} }) :
          p \in {<<m, s>>} })

\* the integer i >= 0 as a number
FromInt(i) ==
    The({ [n |-> IF v = 0 THEN <<>>
                 ELSE IF v < Base THEN <<v>>
                 ELSE IF v < Base * Base THEN <<v % Base, v \div Base>>
                 ELSE <<v % Base, (v \div Base) % Base, v \div (Base * Base)>>,
           k |-> 0] :
          v \in {i} })

\* m / 2^s with the cut lowest bits of m cut off, one added when the bits
\* cut off are more than half a unit of the last place kept, or half a unit
\* and the last bit kept is 1
RoundedAt(m, s, cut) ==
    The({ The({ IF half > 0 \/ (half = 0 /\ BBit(kept_bits, 0) = 1)
                THEN Number(BAdd(kept_bits, <<1>>), s - cut)
                ELSE Number(kept_bits, s - cut) :
                half \in {BCmp(BShl(BSub(m, BShl(kept_bits, cut)), 1), BShl(<<1>>, cut))} }) :
          kept_bits \in {BShr(m, cut)} })

\* m / 2^s rounded to 53 significant bits, ties to even
RoundBits(m, s) ==
    The({ IF BBitLen(p[1]) <= MantissaBits THEN Number(p[1], p[2])
          ELSE RoundedAt(p[1], p[2], BBitLen(p[1]) - MantissaBits) :
          p \in {<<m, s>>} })

\* num / (den * 2^s) rounded to 53 significant bits, ties to even, for
\* natural numbers num and den > 0: the quotient is computed to 54 bits
\* or more (the numerator is shifted up when it is too short for that,
\* never down) with a last bit that tells whether anything is left over
RoundQuotient(num, den, s) ==
    The({ IF p[1] = <<>> THEN FromInt(0)
          ELSE The({ The({ RoundBits(BDoublePlus(dm.q, IF dm.r = <<>> THEN 0 ELSE 1),
                                     p[3] + up + 1) :
                           dm \in {BDivMod(BShl(p[1], up), p[2])} }) :
                     up \in {Max(0, MantissaBits + 2 - (BBitLen(p[1]) - BBitLen(p[2])))} }) :
          p \in {<<num, den, s>>} })

\* x + y, x - y (for x >= y), x * y, x / y as Python's float operators give them
FAdd(x, y) ==
    The({ The({ RoundBits(BAdd(BShl(p[1].n, k - p[1].k), BShl(p[2].n, k - p[2].k)), k) :
                k \in {Max(p[1].k, p[2].k)} }) :
          p \in {<<x, y>>} })

FSub(x, y) ==
    The({ The({ RoundBits(BSub(BShl(p[1].n, k - p[1].k), BShl(p[2].n, k - p[2].k)), k) :
                k \in {Max(p[1].k, p[2].k)} }) :
          p \in {<<x, y>>} })

FMul(x, y) ==
    The({ RoundBits(BMul(p[1].n, p[2].n), p[1].k + p[2].k) : p \in {<<x, y>>} })

FDiv(x, y) ==
    The({ RoundQuotient(p[1].n, p[2].n, p[1].k - p[2].k) : p \in {<<x, y>>} })

\* -1, 0, 1 as x < y, x = y, x > y
FCmp(x, y) ==
    The({ The({ BCmp(BShl(p[1].n, k - p[1].k), BShl(p[2].n, k - p[2].k)) :
                k \in {Max(p[1].k, p[2].k)} }) :
          p \in {<<x, y>>} })

FLess(x, y) == FCmp(x, y) < 0
FLeq(x, y) == FCmp(x, y) <= 0

\* the float nearest to the decimal numeral units.digits, e.g. Decimal(112, 1) = 11.2
Decimal(digits, places) == RoundQuotient(FromInt(digits).n, FromInt(10 ^ places).n, 0)

\* ------------------------------------------------------------ edl.py
\* Python truthiness of data.get('abs_ts'): None, "" and 0 are false
AbsTsGiven(a) ==
    \/ a.kind = "str" /\ a.parts # <<>>
    \/ a.kind = "num" /\ a.val # 0

\* data.get(key): None when the dict lacks the key
data_get(data, key) == IF key \in DOMAIN data THEN data[key] ELSE None

\* A score of a record is a string, held as the integers between its
\* dashes ("2-1" is <<2, 1>>), or a dict of home and away.
ScoreStr(parts) == [kind |-> "str", parts |-> parts, home |-> 0, away |-> 0]
ScoreDict(home, away) == [kind |-> "dict", parts |-> <<>>, home |-> home, away |-> away]

\* lines 104-111: a string "h-a" becomes {home: h, away: a}, a string
\* with no dash raises IndexError inside and gives None, a dict is kept
parsed_score(score) ==
    IF score = None THEN None
    ELSE IF Val(score).kind = "str"
         THEN IF Len(Val(score).parts) >= 2
              THEN Some([home |-> Val(score).parts[1], away |-> Val(score).parts[2]])
              ELSE None
         ELSE Some([home |-> Val(score).home, away |-> Val(score).away])

\* EDLProcessor._create_event_from_data.  The result's event is None when
\* the record is skipped; warning tells that it was skipped with "Cannot
\* compute abs_ts" rather than by the except clause.
MakeEvent(data, source, ts) ==
    [type |-> Val(data.type), abs_ts |-> ts, half |-> data.half,
     clock |-> data.clock,
     team |-> data_get(data, "team"), player |-> data_get(data, "player"),
     assist |-> data_get(data, "assist"),
     score |-> parsed_score(data_get(data, "score")),
     notes |-> data_get(data, "notes"),
     status |-> data.status,
     confidence |-> IF data.confidence = None THEN FromInt(1) ELSE Val(data.confidence),
     signals |-> IF "signals" \in DOMAIN data THEN data.signals ELSE <<>>,
     source |-> source,
     pre_padding |-> FromInt(0), post_padding |-> FromInt(0),
     zoom_enabled |-> FALSE, replay_enabled |-> FALSE]

_create_event_from_data(data, source, kickoff) ==
    IF AbsTsGiven(data.abs_ts)
    THEN IF data.abs_ts.kind = "num" \/ data.type = None
         THEN [event |-> None, warning |-> FALSE]   \* AttributeError / KeyError, caught
         ELSE [event |-> Some(MakeEvent(data, source, parse_timestamp(data.abs_ts.parts))),
               warning |-> FALSE]
    ELSE IF kickoff # None /\ data.half # None /\ data.clock # None
         THEN IF data.type = None
              THEN [event |-> None, warning |-> FALSE]
              ELSE [event |-> Some(MakeEvent(data, source,
                        compute_absolute_time(Val(data.half), Val(data.clock), Val(kickoff)))),
                    warning |-> FALSE]
         ELSE [event |-> None, warning |-> TRUE]

\* The loop of load_guided_events over the validated records (lines 64-74):
\* acc holds guided_events, the two markers and the skipped records.
RECURSIVE load_loop(_, _, _)
load_loop(events_list, kickoff, acc) ==
    IF events_list = <<>> THEN acc
    ELSE LET event_data == Head(events_list)
             made == _create_event_from_data(event_data, "guided", kickoff)
         IN  IF made.event = None
             THEN load_loop(Tail(events_list), kickoff,
                    [acc EXCEPT !.warned = IF made.warning THEN Append(@, event_data) ELSE @])
             ELSE LET event == Val(made.event)
                  IN  load_loop(Tail(events_list), kickoff,
                        [acc EXCEPT
                           !.guided_events = Append(@, event),
                           !.ht = IF event_data.status = Some("HT") THEN Some(event.abs_ts) ELSE @,
                           !.ft = IF event_data.status = Some("FT") THEN Some(event.abs_ts) ELSE @])

\* the records of a list before its first record that fails the schema
RECURSIVE valid_prefix(_)
valid_prefix(events_list) ==
    IF events_list = <<>> \/ validate_event(Head(events_list)) # <<>> THEN <<>>
    ELSE <<Head(events_list)>> \o valid_prefix(Tail(events_list))

load_guided_events_result_record_by_record(events_list, st, kickoff) ==
    LET errs == validate_events_file(events_list)
        acc == load_loop(valid_prefix(events_list), kickoff,
                  [guided_events |-> <<>>, ht |-> st.ht, ft |-> st.ft, warned |-> <<>>])
    IN  [events |-> st.events \o acc.guided_events, ht |-> acc.ht, ft |-> acc.ft,
         ret |-> errs = <<>>, errors |-> errs, warned |-> acc.warned]

\* The body of load_guided_events once the file is read: the processor's
\* fields after the call, with the return value and what was logged.
load_guided_events_result(events_list, st, kickoff) ==
    LET errs == validate_events_file(events_list)
    IN  IF errs # <<>>
        THEN [events |-> st.events, ht |-> st.ht, ft |-> st.ft,
              ret |-> FALSE, errors |-> errs, warned |-> <<>>]
        ELSE LET acc == load_loop(events_list, kickoff,
                          [guided_events |-> <<>>, ht |-> st.ht, ft |-> st.ft, warned |-> <<>>])
             IN  [events |-> st.events \o acc.guided_events, ht |-> acc.ht, ft |-> acc.ft,
                  ret |-> TRUE, errors |-> <<>>, warned |-> acc.warned]

\* EDLProcessor.set_kickoff_time, per event (lines 139-142)
rekick(event, kickoff_ts) ==
    IF /\ event.source = "guided"
       /\ event.half # None /\ Val(event.half) # 0
       /\ event.clock # None /\ Val(event.clock) # <<>>
    THEN [event EXCEPT !.abs_ts = compute_absolute_time(Val(event.half), Val(event.clock), kickoff_ts)]
    ELSE event

\* The loop of add_auto_detected_events (lines 146-150): auto_events, and
\* the candidates _create_event_from_data skipped with its warning
RECURSIVE auto_loop(_, _)
auto_loop(candidates, kickoff) ==
    IF candidates = <<>> THEN [auto_events |-> <<>>, warned |-> <<>>]
    ELSE LET made == _create_event_from_data(Head(candidates), "auto", kickoff)
             rest == auto_loop(Tail(candidates), kickoff)
         IN  [auto_events |-> (IF made.event = None THEN <<>> ELSE <<Val(made.event)>>)
                              \o rest.auto_events,
              warned |-> (IF made.warning THEN <<Head(candidates)>> ELSE <<>>)
                         \o rest.warned]

\* ------------------------------------------------- merge_and_dedupe
SelectSource(evs, source) == SelectSeq(evs, LAMBDA e : e.source = source)

\* EDLProcessor._events_similar
related_types == {{"goal", "goal_like"}, {"big_save", "save"},
                  {"chance", "goal_like"}, {"foul", "card"}}

_events_similar_any_type(event1, event2) == TRUE

_events_similar(event1, event2) ==
    \/ event1.type = event2.type
    \/ \E related_set \in related_types :
          event1.type \in related_set /\ event2.type \in related_set

within_window_exclusive(time_diff, dedupe_window) == time_diff < dedupe_window

\* the window test of line 175
within_window(time_diff, dedupe_window) == time_diff <= dedupe_window

\* the condition of lines 174-175
is_conflict(auto_event, guided_event, dedupe_window) ==
    /\ _events_similar(auto_event, guided_event)
    /\ within_window(Abs(auto_event.abs_ts - guided_event.abs_ts), dedupe_window)

\* the margin of line 180: the float nearest to 0.15
PromotionMargin == Decimal(15, 2)

\* the promotion test of line 180, in floats: the sum is rounded before
\* it is compared
auto_replaces(auto_event, guided_event) ==
    FLeq(FAdd(guided_event.confidence, PromotionMargin), auto_event.confidence)

\* the inner loop of lines 170-188 stops at the first conflicting guided
\* event: its index in guided, 0 when the loop ends without a conflict
first_conflict(auto_event, guided, dedupe_window) ==
    LET hits == {j \in 1..Len(guided) : is_conflict(auto_event, guided[j], dedupe_window)}
    IN  IF hits = {} THEN 0 ELSE CHOOSE j \in hits : \A k \in hits : j <= k

Contains(s, x) == \E i \in 1..Len(s) : s[i] = x

\* list.remove(x): drops the first element equal to x (dataclass equality
\* compares the fields)
list_remove(s, x) ==
    LET i == CHOOSE i \in 1..Len(s) : s[i] = x /\ \A k \in 1..(i - 1) : s[k] # x
    IN  SubSeq(s, 1, i - 1) \o SubSeq(s, i + 1, Len(s))

replace_guided_in_place(final_events, guided_event, auto_event) ==
    LET i == CHOOSE i \in 1..Len(final_events) : final_events[i] = guided_event
    IN  [final_events EXCEPT ![i] = [auto_event EXCEPT !.source = "guided"]]

\* lines 181-182: the guided event leaves the list, the auto event joins it
replace_guided(final_events, guided_event, auto_event) ==
    Append(list_remove(final_events, guided_event), auto_event)

\* the outer loop of lines 166-196; list.remove raises ValueError when the
\* guided event is no longer in final_events
RECURSIVE dedupe_loop(_, _, _, _)
dedupe_loop(auto, guided, final_events, dedupe_window) ==
    IF auto = <<>> THEN [raised |-> FALSE, final_events |-> final_events]
    ELSE LET auto_event == Head(auto)
             j == first_conflict(auto_event, guided, dedupe_window)
         IN  IF j = 0
             THEN dedupe_loop(Tail(auto), guided, Append(final_events, auto_event), dedupe_window)
             ELSE IF auto_replaces(auto_event, guided[j])
                  THEN IF Contains(final_events, guided[j])
                       THEN dedupe_loop(Tail(auto), guided,
                              replace_guided(final_events, guided[j], auto_event),
                              dedupe_window)
                       ELSE [raised |-> TRUE, final_events |-> final_events]
                  ELSE dedupe_loop(Tail(auto), guided, final_events, dedupe_window)

\* list.sort is stable: an insertion sort that keeps equal keys in order
RECURSIVE insert_by_abs_ts(_, _)
insert_by_abs_ts(sorted, e) ==
    IF sorted = <<>> THEN <<e>>
    ELSE IF e.abs_ts < Head(sorted).abs_ts THEN <<e>> \o sorted
         ELSE <<Head(sorted)>> \o insert_by_abs_ts(Tail(sorted), e)

RECURSIVE stable_sort_abs_ts(_)
stable_sort_abs_ts(s) ==
    IF s = <<>> THEN <<>>
    ELSE insert_by_abs_ts(stable_sort_abs_ts(SubSeq(s, 1, Len(s) - 1)), s[Len(s)])

sort_by_abs_ts_skipped(final_events) == final_events

\* line 199: final_events.sort(key=lambda e: e.abs_ts)
sort_by_abs_ts(final_events) == stable_sort_abs_ts(final_events)

\* EDLProcessor._rank_events
priority_scores(type) ==
    CASE type = "goal" -> 10
      [] type = "goal_like" -> 9
      [] type = "big_save" -> 8
      [] type = "save" -> 7
      [] type = "chance" -> 6
      [] type = "card" -> 5
      [] type = "foul" -> 4
      [] type = "celebration" -> 3
      [] OTHER -> 0

rank_key_less_no_confidence(a, b) ==
    \/ priority_scores(a.type) > priority_scores(b.type)
    \/ priority_scores(a.type) = priority_scores(b.type) /\ a.abs_ts < b.abs_ts

\* the sort key of lines 246-250, compared as Python compares tuples
\* (-x < -y for floats x, y is y < x)
rank_key_less(a, b) ==
    LET ka == <<-priority_scores(a.type), a.confidence, a.abs_ts>>
        kb == <<-priority_scores(b.type), b.confidence, b.abs_ts>>
    IN  \/ ka[1] < kb[1]
        \/ ka[1] = kb[1] /\ FLess(kb[2], ka[2])
        \/ ka[1] = kb[1] /\ FCmp(ka[2], kb[2]) = 0 /\ ka[3] < kb[3]

\* sorted(events, key=...) is stable as well
RECURSIVE insert_by_rank(_, _)
insert_by_rank(sorted, e) ==
    IF sorted = <<>> THEN <<e>>
    ELSE IF rank_key_less(e, Head(sorted)) THEN <<e>> \o sorted
         ELSE <<Head(sorted)>> \o insert_by_rank(Tail(sorted), e)

RECURSIVE stable_sort_rank(_)
stable_sort_rank(s) ==
    IF s = <<>> THEN <<>>
    ELSE insert_by_rank(stable_sort_rank(SubSeq(s, 1, Len(s) - 1)), s[Len(s)])

_rank_events(evs) == stable_sort_rank(evs)

apply_limits_off_by_one(final_events, max_clips) ==
    IF Len(final_events) > max_clips + 1
    THEN SubSeq(stable_sort_rank(final_events), 1, max_clips + 1)
    ELSE final_events

\* lines 201-206: apply the limit
apply_limits(final_events, max_clips) ==
    IF Len(final_events) > max_clips
    THEN SubSeq(_rank_events(final_events), 1, max_clips)
    ELSE final_events

\* the list before the limit is applied (lines 157-199)
deduplicated(evs, dedupe_window) ==
    LET guided == SelectSource(evs, "guided")
        auto == SelectSource(evs, "auto")
        r == dedupe_loop(auto, guided, guided, dedupe_window)
    IN  [r EXCEPT !.final_events = sort_by_abs_ts(@)]

\* EDLProcessor.merge_and_dedupe as a function of the list and the config
merge_and_dedupe_result(evs, cfg) ==
    LET d == deduplicated(evs, cfg.dedupe_window_s)
    IN  IF d.raised THEN [raised |-> TRUE, value |-> <<>>]
        ELSE [raised |-> FALSE, value |-> apply_limits(d.final_events, cfg.max_clips)]

\* ------------------------------------------------- paddings and flags
\* dict.get(key, default) for a key that may be absent
get(opt, default) == IF opt = None THEN default ELSE Val(opt)

DefaultMaxPre == 15
DefaultMaxPost == 25
DefaultMinClipLen == 6
DefaultMaxClipLen == 30

\* the paddings an event gets before the limits (lines 257-289), as
\* <<pre_padding, post_padding>>; the configured values are whole seconds
event_padding(event, padding_config) ==
    LET base_pre == padding_config.default_pre
        base_post == padding_config.default_post
        has(signal) == Contains(event.signals, signal)
        pre_padding ==
            IF event.type = "goal"
            THEN base_pre + (IF has("build_up") \/ has("attack")
                             THEN get(padding_config.goal_pre_bonus_on_attack, 0) ELSE 0)
            ELSE IF event.type \in {"big_save", "save"} THEN get(padding_config.save_pre, base_pre)
            ELSE IF event.type = "chance" THEN get(padding_config.chance_pre, base_pre)
            ELSE IF event.type \in {"foul", "card"} THEN get(padding_config.foul_or_card_pre, base_pre)
            ELSE base_pre
        post_padding ==
            IF event.type = "goal"
            THEN base_post + (IF has("celebration")
                              THEN get(padding_config.goal_post_bonus_on_celebration, 0) ELSE 0)
            ELSE IF event.type \in {"big_save", "save"} THEN get(padding_config.save_post, base_post)
            ELSE IF event.type = "chance" THEN get(padding_config.chance_post, base_post)
            ELSE IF event.type \in {"foul", "card"} THEN get(padding_config.foul_or_card_post, base_post)
            ELSE base_post
    IN  <<pre_padding, post_padding>>

adaptive_padding_without_limits(event, padding_config) ==
    LET padding == event_padding(event, padding_config)
    IN  [event EXCEPT !.pre_padding = FromInt(padding[1]),
                      !.post_padding = FromInt(padding[2])]

\* the body of the loop of compute_adaptive_padding: the paddings, cut to
\* the limits (lines 291-296)
adaptive_padding_on_top(event, padding_config) ==
    LET padding == event_padding(event, padding_config)
        max_pre == get(padding_config.max_pre, DefaultMaxPre)
        max_post == get(padding_config.max_post, DefaultMaxPost)
        pre_padding == FAdd(event.pre_padding, FromInt(padding[1]))
        post_padding == FAdd(event.post_padding, FromInt(padding[2]))
    IN  [event EXCEPT !.pre_padding = IF FLess(pre_padding, FromInt(max_pre))
                                      THEN pre_padding ELSE FromInt(max_pre),
                      !.post_padding = IF FLess(post_padding, FromInt(max_post))
                                       THEN post_padding ELSE FromInt(max_post)]

adaptive_padding(event, padding_config) ==
    LET padding == event_padding(event, padding_config)
        max_pre == get(padding_config.max_pre, DefaultMaxPre)
        max_post == get(padding_config.max_post, DefaultMaxPost)
    IN  [event EXCEPT !.pre_padding = FromInt(Min(padding[1], max_pre)),
                      !.post_padding = FromInt(Min(padding[2], max_post))]

\* the body of the loop of apply_feature_flags (lines 316-321)
feature_flags(event, cfg) ==
    [event EXCEPT !.zoom_enabled = get(cfg.zoom_enable, TRUE),
                  !.replay_enabled = event.type \in cfg.replay_enable_for]

\* the two tests of validate_clip_durations (lines 336 and 344)
too_short(total_duration, min_duration) == FLess(total_duration, FromInt(min_duration))
too_long(total_duration, max_duration) == FLess(FromInt(max_duration), total_duration)

clip_duration_pads_before(event, min_duration, max_duration) ==
    LET total_duration == FAdd(event.pre_padding, event.post_padding)
    IN  IF too_short(total_duration, min_duration)
        THEN LET additional == FSub(FromInt(min_duration), total_duration)
             IN  [event EXCEPT !.pre_padding = FAdd(@, additional)]
        ELSE IF too_long(total_duration, max_duration)
        THEN LET scale == FDiv(FromInt(max_duration), total_duration)
             IN  [event EXCEPT !.pre_padding = FMul(@, scale),
                               !.post_padding = FMul(@, scale)]
        ELSE event

\* the body of the loop of validate_clip_durations (lines 334-351), in
\* Python's float arithmetic
clip_duration(event, min_duration, max_duration) ==
    LET total_duration == FAdd(event.pre_padding, event.post_padding)
    IN  IF too_short(total_duration, min_duration)
        THEN LET additional == FSub(FromInt(min_duration), total_duration)
             IN  [event EXCEPT !.post_padding = FAdd(@, additional)]
        ELSE IF too_long(total_duration, max_duration)
        THEN LET scale == FDiv(FromInt(max_duration), total_duration)
             IN  [event EXCEPT !.pre_padding = FMul(@, scale),
                               !.post_padding = FMul(@, scale)]
        ELSE event

\* ------------------------------------------------------------ inputs
NoAbsTs == [kind |-> "absent", parts |-> <<>>, val |-> 0]
StrAbsTs(parts) == [kind |-> "str", parts |-> parts, val |-> 0]
NumAbsTs(n) == [kind |-> "num", parts |-> <<>>, val |-> n]

Rec(type, half, clock, abs_ts, confidence, status) ==
    [type |-> type, half |-> half, clock |-> clock, abs_ts |-> abs_ts,
     confidence |-> confidence, status |-> status]

\* the details of a record, as the sample events of the module give them
Details(team, player, assist, score, notes) ==
    [team |-> team, player |-> player, assist |-> assist, score |-> score, notes |-> notes]

\* records of an events file that pass the schema: two that leave abs_ts to
\* the kickoff reference, and two that state it (two seconds off the clock,
\* with a lower confidence) and carry the status markers; one of these has
\* every detail, the other one a score without a dash
ValidGuidedRecords ==
    { Rec(Some(t), Some(1), Some(<<0, 11>>), NoAbsTs, None, None) : t \in {"goal", "chance"} }
    \cup { Rec(Some("goal"), Some(1), Some(<<0, 12>>), StrAbsTs(<<0, 0, 10>>),
               Some(Decimal(5, 1)), Some("FT"))
             @@ Details(Some("Syston"), Some("John Doe"), Some("Jane Smith"),
                        Some(ScoreStr(<<2, 1>>)), Some("Great strike")),
           Rec(Some("chance"), Some(1), Some(<<0, 12>>), StrAbsTs(<<0, 0, 10>>),
               Some(Decimal(55, 2)), Some("HT"))
             @@ [score |-> Some(ScoreStr(<<2>>))] }

\* records that fail it: no half, a type outside the schema, a third half
InvalidGuidedRecords ==
    { Rec(Some("goal"), None, Some(<<0, 10>>), StrAbsTs(<<0, 0, 10>>), None, None),
      Rec(Some("highlight"), Some(1), Some(<<0, 10>>), StrAbsTs(<<0, 0, 10>>), None, None),
      Rec(Some("goal"), Some(3), Some(<<0, 12>>), StrAbsTs(<<0, 0, 12>>), None, Some("HT")) }

GuidedRecords == ValidGuidedRecords \cup InvalidGuidedRecords

\* candidates of the detectors: a timestamp string, or a number of seconds
AutoCandidates ==
    { Rec(Some(t), None, None, StrAbsTs(<<0, 0, 12>>), Some(c), None) :
        t \in {"goal", "goal_like", "highlight"}, c \in {Decimal(65, 2), Decimal(7, 1)} }
    \cup { Rec(Some("goal"), None, None, NumAbsTs(12), Some(Decimal(65, 2)), None) }

Batches(S) == UNION { [1..n -> S] : n \in 0..MaxBatch }

\* ------------------------------------------------------ the processor
Fields == [events |-> events, ht |-> half_time_marker, ft |-> full_time_marker]

\* EDLProcessor.__init__; the configuration is read, not written
Init ==
    /\ events = <<>>
    /\ kickoff_time = None
    /\ half_time_marker = None
    /\ full_time_marker = None
    /\ config \in [dedupe_window_s : 1..MaxWindow, max_clips : 1..MaxClips]
    /\ op = "init"
    /\ arg = <<>>
    /\ pre = [events |-> <<>>, ht |-> None, ft |-> None]
    /\ ret = [raised |-> FALSE, value |-> None]
    /\ errors = <<>>
    /\ warned = <<>>

load_guided_events(events_list) ==
    /\ Len(events) + Len(events_list) <= MaxEvents
    /\ LET r == load_guided_events_result(events_list, Fields, kickoff_time)
       IN  /\ events' = r.events
           /\ half_time_marker' = r.ht
           /\ full_time_marker' = r.ft
           /\ ret' = [raised |-> FALSE, value |-> r.ret]
           /\ errors' = r.errors
           /\ warned' = r.warned
    /\ op' = "load_guided_events"
    /\ arg' = events_list
    /\ pre' = Fields
    /\ UNCHANGED <<kickoff_time, config>>

set_kickoff_time(kickoff_ts) ==
    /\ kickoff_time' = Some(kickoff_ts)
    /\ events' = [i \in 1..Len(events) |-> rekick(events[i], kickoff_ts)]
    /\ op' = "set_kickoff_time"
    /\ arg' = kickoff_ts
    /\ pre' = Fields
    /\ ret' = [raised |-> FALSE, value |-> None]
    /\ errors' = <<>>
    /\ UNCHANGED <<half_time_marker, full_time_marker, config, warned>>

add_auto_detected_events(candidates) ==
    /\ Len(events) + Len(candidates) <= MaxEvents
    /\ LET r == auto_loop(candidates, kickoff_time)
       IN  /\ events' = events \o r.auto_events
           /\ warned' = r.warned
    /\ op' = "add_auto_detected_events"
    /\ arg' = candidates
    /\ pre' = Fields
    /\ ret' = [raised |-> FALSE, value |-> None]
    /\ errors' = <<>>
    /\ UNCHANGED <<kickoff_time, half_time_marker, full_time_marker, config>>

\* a ValueError leaves self.events as it was: line 208 is not reached
merge_and_dedupe ==
    /\ LET r == merge_and_dedupe_result(events, config)
       IN  /\ ret' = r
           /\ events' = IF r.raised THEN events ELSE r.value
    /\ op' = "merge_and_dedupe"
    /\ arg' = <<>>
    /\ pre' = Fields
    /\ errors' = <<>>
    /\ warned' = <<>>
    /\ UNCHANGED <<kickoff_time, half_time_marker, full_time_marker, config>>

Next ==
    \/ \E events_list \in Batches(GuidedRecords) : load_guided_events(events_list)
    \/ \E kickoff_ts \in 0..MaxKickoff : set_kickoff_time(kickoff_ts)
    \/ \E candidates \in Batches(AutoCandidates) : add_auto_detected_events(candidates)
    \/ merge_and_dedupe

Spec == Init /\ [][Next]_vars

\* -------------------------------------------------- clips of the events
compute_adaptive_padding ==
    /\ events' = [i \in 1..Len(events) |-> adaptive_padding(events[i], config.padding)]
    /\ op' = "compute_adaptive_padding"
    /\ arg' = <<>>
    /\ pre' = Fields
    /\ ret' = [raised |-> FALSE, value |-> events']
    /\ errors' = <<>>
    /\ warned' = <<>>
    /\ UNCHANGED <<kickoff_time, half_time_marker, full_time_marker, config>>

apply_feature_flags ==
    /\ events' = [i \in 1..Len(events) |-> feature_flags(events[i], config)]
    /\ op' = "apply_feature_flags"
    /\ arg' = <<>>
    /\ pre' = Fields
    /\ ret' = [raised |-> FALSE, value |-> events']
    /\ errors' = <<>>
    /\ warned' = <<>>
    /\ UNCHANGED <<kickoff_time, half_time_marker, full_time_marker, config>>

validate_clip_durations ==
    /\ LET min_duration == get(config.min_clip_len_s, DefaultMinClipLen)
           max_duration == get(config.max_clip_len_s, DefaultMaxClipLen)
       IN  events' = [i \in 1..Len(events) |->
                        clip_duration(events[i], min_duration, max_duration)]
    /\ op' = "validate_clip_durations"
    /\ arg' = <<>>
    /\ pre' = Fields
    /\ ret' = [raised |-> FALSE, value |-> events']
    /\ errors' = <<>>
    /\ warned' = <<>>
    /\ UNCHANGED <<kickoff_time, half_time_marker, full_time_marker, config>>

\* config['padding'] with its sections laid flat; an absent key is None
PaddingConfig(default, goal, save, chance, foul_or_card, max) ==
    [default_pre |-> default[1], default_post |-> default[2],
     goal_pre_bonus_on_attack |-> goal[1], goal_post_bonus_on_celebration |-> goal[2],
     save_pre |-> save[1], save_post |-> save[2],
     chance_pre |-> chance[1], chance_post |-> chance[2],
     foul_or_card_pre |-> foul_or_card[1], foul_or_card_post |-> foul_or_card[2],
     max_pre |-> max[1], max_post |-> max[2]]

Absent == <<None, None>>

ClipConfig(padding, min_clip_len_s, max_clip_len_s, zoom_enable, replay_enable_for) ==
    [dedupe_window_s |-> 1, max_clips |-> MaxClips, padding |-> padding,
     min_clip_len_s |-> min_clip_len_s, max_clip_len_s |-> max_clip_len_s,
     zoom_enable |-> zoom_enable, replay_enable_for |-> replay_enable_for]

\* three configurations: one that leaves the limits to their defaults and
\* sets every section, one with only the default section and its own
\* limits, one with zero defaults and equal minimum and maximum length
ClipConfigs ==
    { ClipConfig(PaddingConfig(<<8, 15>>, <<Some(3), Some(10)>>, <<Some(2), Some(4)>>,
                               <<Some(1), Some(2)>>, <<Some(20), Some(30)>>, Absent),
                 None, None, None, {"goal"}),
      ClipConfig(PaddingConfig(<<12, 23>>, Absent, Absent, Absent, Absent,
                               <<Some(20), Some(30)>>),
                 Some(6), Some(30), Some(FALSE), {}),
      ClipConfig(PaddingConfig(<<0, 0>>, <<Some(4), None>>, <<Some(9), Some(9)>>, Absent, Absent,
                               <<Some(5), Some(25)>>),
                 Some(10), Some(10), Some(TRUE), {"goal", "save"}) }

\* candidates of every padding rule, with the signals the rules read
ClipCandidates ==
    { Rec(Some("goal"), None, None, StrAbsTs(<<0, 0, 12>>), Some(Decimal(65, 2)), None)
          @@ [signals |-> <<"attack", "celebration">>],
      Rec(Some("goal"), None, None, StrAbsTs(<<0, 0, 12>>), Some(Decimal(65, 2)), None)
          @@ [signals |-> <<"build_up">>] }
    \cup { Rec(Some(t), None, None, StrAbsTs(<<0, 0, 20>>), Some(Decimal(6, 1)), None) :
             t \in {"save", "chance", "foul", "highlight"} }

MaxClipEvents == 2

InitClips ==
    /\ events = <<>>
    /\ kickoff_time = None
    /\ half_time_marker = None
    /\ full_time_marker = None
    /\ config \in ClipConfigs
    /\ op = "init"
    /\ arg = <<>>
    /\ pre = [events |-> <<>>, ht |-> None, ft |-> None]
    /\ ret = [raised |-> FALSE, value |-> None]
    /\ errors = <<>>
    /\ warned = <<>>

NextClips ==
    \/ /\ Len(events) < MaxClipEvents
       /\ \E candidate \in ClipCandidates : add_auto_detected_events(<<candidate>>)
    \/ compute_adaptive_padding
    \/ validate_clip_durations

SpecClips == InitClips /\ [][NextClips]_vars

\* the operations of the processor together, on few records
PipelineRecords ==
    { Rec(Some("goal"), Some(1), Some(<<0, 11>>), NoAbsTs, Some(Decimal(5, 1)), None),
      Rec(Some("chance"), Some(1), Some(<<0, 25>>), StrAbsTs(<<0, 0, 20>>), None, None) }

NextPipeline ==
    \/ /\ Len(events) < MaxClipEvents
       /\ \E record \in PipelineRecords : load_guided_events(<<record>>)
    \/ \E kickoff_ts \in 0..MaxKickoff : set_kickoff_time(kickoff_ts)
    \/ /\ Len(events) < MaxClipEvents
       /\ \E candidate \in ClipCandidates : add_auto_detected_events(<<candidate>>)
    \/ merge_and_dedupe
    \/ compute_adaptive_padding
    \/ apply_feature_flags
    \/ validate_clip_durations

SpecPipeline == InitClips /\ [][NextPipeline]_vars

\* ------------------------------------------- timestamps of the records
\* Records and candidates that differ in how they state the time: none, a
\* timestamp string "HH:MM:SS", a string of another shape ("00:12", "12"),
\* a number of seconds under 'abs_ts' (detect.py), a number of seconds
\* under 'timestamp' (SignalFusion.export_to_json_events).
TimestampRecords ==
    { Rec(Some("goal"), Some(1), Some(<<0, 11>>), NoAbsTs, None, None),
      Rec(Some("goal"), Some(1), Some(<<0, 11>>), StrAbsTs(<<0, 12>>), None, None),
      Rec(Some("chance"), Some(2), Some(<<50, 0>>), StrAbsTs(<<0, 0, 10>>), Some(Decimal(5, 1)), None) }

TimestampCandidates ==
    { Rec(Some("goal"), None, None, NumAbsTs(12), Some(Decimal(65, 2)), None),
      Rec(Some("highlight"), None, None, NoAbsTs, Some(Decimal(65, 2)), None)
          @@ [timestamp |-> 12, signals |-> <<"audio">>],
      Rec(Some("goal"), None, None, StrAbsTs(<<12>>), Some(Decimal(65, 2)), None),
      Rec(Some("goal_like"), None, None, StrAbsTs(<<0, 0, 12>>), Some(Decimal(6, 1)), None) }

NextTimestamps ==
    \/ \E events_list \in Batches(TimestampRecords) : load_guided_events(events_list)
    \/ \E kickoff_ts \in 0..MaxKickoff : set_kickoff_time(kickoff_ts)
    \/ \E candidates \in Batches(TimestampCandidates) : add_auto_detected_events(candidates)

SpecTimestamps == Init /\ [][NextTimestamps]_vars

\* ------------------------------------------------ detect_fusion.py
\* A detection is a dict; each of its keys may be missing (None).  The
\* numbers are floats >= 0.  The signals are the dict signal_type -> list of
\* detections in its iteration order: a sequence of pairs.
Detection(timestamp, type, energy, magnitude, difference, confidence) ==
    [timestamp |-> timestamp, type |-> type, energy |-> energy,
     magnitude |-> magnitude, difference |-> difference, confidence |-> confidence]

DefaultWeights ==
    [json |-> Decimal(50, 1), yolo |-> Decimal(20, 1), audio |-> Decimal(15, 1),
     whistle |-> Decimal(10, 1), flow |-> Decimal(10, 1), scene_cut |-> Decimal(5, 1),
     commentary |-> Decimal(12, 1)]

\* SignalFusion.__init__: the weights (defaults updated by the configured
\* ones), the bucket size and the minimum confidence
SignalFusion(cfg) ==
    [weights |-> get(cfg.detection.weights, <<>>) @@ DefaultWeights,
     bucket_size |-> get(cfg.detection.bucket_size, Decimal(10, 1)),
     min_confidence |-> get(cfg.detection.min_confidence, Decimal(3, 1))]

\* min(x, 1.0)
clip_to_one(x) == IF FLess(x, FromInt(1)) THEN x ELSE FromInt(1)

\* SignalFusion._get_confidence
_get_confidence(detection, signal_type) ==
    IF signal_type = "json" THEN Decimal(10, 1)
    ELSE IF signal_type = "audio"
    THEN clip_to_one(FDiv(get(detection.energy, Decimal(10, 1)), Decimal(30, 1)))
    ELSE IF signal_type = "flow"
    THEN clip_to_one(FDiv(get(detection.magnitude, Decimal(25, 1)), Decimal(100, 1)))
    ELSE IF signal_type = "scene_cut"
    THEN clip_to_one(FDiv(get(detection.difference, Decimal(300, 1)), Decimal(1000, 1)))
    ELSE get(detection.confidence, Decimal(5, 1))

\* the natural number of a sequence of limbs
RECURSIVE BValue(_)
BValue(a) == IF a = <<>> THEN 0 ELSE a[1] + Base * BValue(Tail(a))

\* int(x): the whole part of x
int(x) == The({ BValue(BShr(v.n, v.k)) : v \in {x} })

\* int(timestamp / self.bucket_size)
bucket_index_rounded(timestamp, bucket_size) ==
    int(FAdd(FDiv(timestamp, bucket_size), Decimal(5, 1)))

bucket_index(timestamp, bucket_size) == int(FDiv(timestamp, bucket_size))

\* position of the bucket of an index in the buckets (in insertion order),
\* 0 when the defaultdict does not have it yet
RECURSIVE bucket_position(_, _, _)
bucket_position(buckets, bucket_idx, i) ==
    IF i > Len(buckets) THEN 0
    ELSE IF buckets[i].bucket_idx = bucket_idx THEN i
    ELSE bucket_position(buckets, bucket_idx, i + 1)

\* the value the defaultdict makes for a new key
new_bucket(bucket_idx) ==
    [bucket_idx |-> bucket_idx, signals |-> <<>>, score |-> FromInt(0),
     timestamps |-> <<>>, types |-> {}]

\* the bucket of an index with one more detection in it
filled_bucket(bucket, signal_type, weight, detection, timestamp) ==
    [bucket_idx |-> bucket.bucket_idx,
     signals |-> Append(bucket.signals,
                        [type |-> signal_type, detection |-> detection, weight |-> weight]),
     score |-> FAdd(bucket.score, FMul(weight, _get_confidence(detection, signal_type))),
     timestamps |-> Append(bucket.timestamps, timestamp),
     types |-> bucket.types \cup {get(detection.type, signal_type)}]

\* the body of the loop over the detections of one signal type
add_detection(buckets, fusion, signal_type, weight, detection) ==
    The({ The({ The({ IF at = 0
                      THEN Append(buckets,
                                  filled_bucket(new_bucket(bucket_idx), signal_type, weight,
                                                detection, timestamp))
                      ELSE [buckets EXCEPT ![at] = filled_bucket(@, signal_type, weight,
                                                                detection, timestamp)] :
                      at \in {bucket_position(buckets, bucket_idx, 1)} }) :
                bucket_idx \in {bucket_index(timestamp, fusion.bucket_size)} }) :
          timestamp \in {get(detection.timestamp, FromInt(0))} })

RECURSIVE add_detections(_, _, _, _, _)
add_detections(buckets, fusion, signal_type, weight, detections) ==
    IF detections = <<>> THEN buckets
    ELSE The({ add_detections(filled, fusion, signal_type, weight, Tail(detections)) :
               filled \in {add_detection(buckets, fusion, signal_type, weight,
                                         Head(detections))} })

\* self.weights.get(signal_type, 1.0)
weight_of(fusion, signal_type) ==
    IF signal_type \in DOMAIN fusion.weights
    THEN fusion.weights[signal_type] ELSE Decimal(10, 1)

\* the loop over signals.items()
RECURSIVE add_signals(_, _, _)
add_signals(buckets, fusion, signals) ==
    IF signals = <<>> THEN buckets
    ELSE The({ add_signals(filled, fusion, Tail(signals)) :
               filled \in {add_detections(buckets, fusion, Head(signals)[1],
                                          weight_of(fusion, Head(signals)[1]),
                                          Head(signals)[2])} })

\* the sum of a list of floats, left to right
RECURSIVE FSum(_, _)
FSum(xs, total) == IF xs = <<>> THEN total ELSE FSum(Tail(xs), FAdd(total, Head(xs)))

\* float(np.mean(timestamps))
mean(xs) == FDiv(FSum(xs, FromInt(0)), FromInt(Len(xs)))

\* bucket['score'] / max(num_signals, 1)
unnormalized_score(score, num_signals) == score

normalized_score(score, num_signals) == FDiv(score, FromInt(Max(num_signals, 1)))

\* the event of a bucket
fused_event(bucket) ==
    LET num_signals == Len(bucket.signals)
    IN  [timestamp |-> mean(bucket.timestamps),
         bucket_idx |-> bucket.bucket_idx,
         score |-> normalized_score(bucket.score, num_signals),
         raw_score |-> bucket.score,
         num_signals |-> num_signals,
         signal_types |-> bucket.types,
         signals |-> bucket.signals]

\* SignalFusion.fuse_signals: the events of the buckets, in the order the
\* buckets were made, without those below the minimum confidence
fused_events(fusion, signals) ==
    LET kept(e) == ~FLess(e.score, fusion.min_confidence)
    IN  The({ SelectSeq([i \in 1..Len(buckets) |-> fused_event(buckets[i])], kept) :
              buckets \in {add_signals(<<>>, fusion, signals)} })

fuse_signals(signals) ==
    /\ op' = "fuse_signals"
    /\ arg' = signals
    /\ pre' = Fields
    /\ ret' = [raised |-> FALSE,
               value |-> The({ fused_events(fusion, signals) :
                               fusion \in {SignalFusion(config)} })]
    /\ errors' = <<>>
    /\ warned' = <<>>
    /\ UNCHANGED <<events, kickoff_time, half_time_marker, full_time_marker, config>>

\* -------------------------------------------------- fusing the signals
\* config['detection']: weights, bucket_size, min_confidence, each optional
FusionConfig(weights, bucket_size, min_confidence) ==
    [dedupe_window_s |-> 1, max_clips |-> MaxClips,
     detection |-> [weights |-> weights, bucket_size |-> bucket_size,
                    min_confidence |-> min_confidence]]

\* the defaults; half-second buckets with own weights and a higher
\* threshold; two-second buckets that keep every event
FusionConfigs ==
    { FusionConfig(None, None, None),
      FusionConfig(Some([whistle |-> Decimal(20, 1), scene_cuts |-> Decimal(7, 1)]),
                   Some(Decimal(5, 1)), Some(Decimal(5, 1))),
      FusionConfig(None, Some(Decimal(20, 1)), Some(Decimal(0, 1))) }

\* detections of every signal type, with and without their fields, below
\* and above the range that is clipped, and of 'scene_cuts', the key
\* detect_events_multimodal files its scene cuts under, which has no weight
\* and no rule of its own in _get_confidence
Detections ==
    [audio |-> << Detection(Some(Decimal(105, 1)), None, Some(Decimal(23, 1)), None, None, None),
                  Detection(Some(Decimal(102, 1)), Some("audio_spike"), Some(Decimal(45, 1)),
                            None, None, None),
                  Detection(Some(Decimal(110, 1)), None, None, None, None, None) >>,
     whistle |-> << Detection(Some(Decimal(112, 1)), None, None, None, None, Some(Decimal(8, 1))),
                    Detection(Some(Decimal(109, 1)), Some("whistle"), None, None, None,
                              Some(Decimal(1, 1))),
                    Detection(None, None, None, None, None, None),
                    Detection(Some(Decimal(107, 1)), None, None, None, None,
                              Some(Decimal(15, 1))) >>,
     yolo |-> << Detection(Some(Decimal(108, 1)), Some("ball_near_goal"), None, None, None,
                           Some(Decimal(9, 1))) >>,
     flow |-> << Detection(Some(Decimal(101, 1)), None, None, Some(Decimal(120, 1)), None, None),
                 Detection(Some(Decimal(119, 1)), None, None, None, None, None) >>,
     scene_cut |-> << Detection(Some(Decimal(104, 1)), None, None, None, Some(Decimal(450, 1)),
                                None) >>,
     json |-> << Detection(Some(Decimal(100, 1)), Some("goal"), None, None, None, None) >>,
     commentary |-> << Detection(Some(Decimal(103, 1)), None, None, None, None,
                                 Some(Decimal(85, 2))) >>,
     scene_cuts |-> << Detection(Some(Decimal(115, 1)), None, None, None,
                                 Some(Decimal(450, 1)), None) >>]

MaxSignalTypes == 2
MaxDetections == 2

\* the lists of one to MaxDetections different detections of a signal type
DetectionLists(signal_type) ==
    UNION { { [i \in DOMAIN p |-> pool[p[i]]] :
              p \in { q \in UNION { [1..n -> 1..Len(pool)] : n \in 1..MaxDetections } :
                        \A i, j \in DOMAIN q : i # j => q[i] # q[j] } } :
            pool \in {Detections[signal_type]} }

SignalLists ==
    UNION { { <<signal_type, detections>> : detections \in DetectionLists(signal_type) } :
              signal_type \in DOMAIN Detections }

\* the dicts of up to MaxSignalTypes signal types
SignalDicts ==
    { s \in UNION { [1..n -> SignalLists] : n \in 0..MaxSignalTypes } :
        \A i, j \in DOMAIN s : i # j => s[i][1] # s[j][1] }

\* the processor is not used; arg holds the signals collected from the
\* detectors, which fuse_signals is then called with
InitFusion ==
    /\ events = <<>>
    /\ kickoff_time = None
    /\ half_time_marker = None
    /\ full_time_marker = None
    /\ config \in FusionConfigs
    /\ op = "init"
    /\ arg \in SignalDicts
    /\ pre = [events |-> <<>>, ht |-> None, ft |-> None]
    /\ ret = [raised |-> FALSE, value |-> None]
    /\ errors = <<>>
    /\ warned = <<>>

NextFusion == fuse_signals(arg)

SpecFusion == InitFusion /\ [][NextFusion]_vars

\* ------------------------------------- ranking and merging fused events
\* sorted(events, key=lambda x: x['score'], reverse=True): a stable sort, an
\* event goes behind the events before it with the same or a higher score
insert_by_score(sorted_events, event) ==
    The({ SubSeq(sorted_events, 1, at) \o <<event>>
            \o SubSeq(sorted_events, at + 1, Len(sorted_events)) :
          at \in {Cardinality({ i \in DOMAIN sorted_events :
                                  ~FLess(sorted_events[i].score, event.score) })} })

RECURSIVE sorted_by_score(_, _)
sorted_by_score(sorted_events, events_left) ==
    IF events_left = <<>> THEN sorted_events
    ELSE The({ sorted_by_score(longer, Tail(events_left)) :
               longer \in {insert_by_score(sorted_events, Head(events_left))} })

\* sorted_events[:top_k] for top_k >= 0
first_events(sorted_events, top_k) ==
    IF top_k = None THEN sorted_events
    ELSE SubSeq(sorted_events, 1, Min(Val(top_k), Len(sorted_events)))

\* event['rank'] = i
with_rank_from_zero(event, i) == [rank |-> i - 1] @@ event

with_rank(event, i) == [rank |-> i] @@ event

\* what rank_events returns: the positions in events of the ranked events,
\* best first (the events returned are the very dicts of the input)
ranked_positions(input, top_k) ==
    first_events(sorted_by_score(<<>>, [i \in DOMAIN input |->
                                          [at |-> i, score |-> input[i].score]]), top_k)

\* SignalFusion.rank_events, called with the caller's list input
rank_events(input, top_k) ==
    /\ op' = "rank_events"
    /\ arg' = [events |-> input, top_k |-> top_k]
    /\ \E ranked \in {ranked_positions(input, top_k)} :
        /\ ret' = [raised |-> FALSE,
                   value |-> [i \in DOMAIN ranked |-> with_rank(input[ranked[i].at], i)]]
        /\ events' = [j \in DOMAIN input |->
                        IF \E i \in DOMAIN ranked : ranked[i].at = j
                        THEN with_rank(input[j],
                                       CHOOSE i \in DOMAIN ranked : ranked[i].at = j)
                        ELSE input[j]]
    /\ errors' = <<>>
    /\ warned' = <<>>
    /\ UNCHANGED <<kickoff_time, half_time_marker, full_time_marker, config, pre>>

\* sorted(events, key=lambda x: x['timestamp']): a stable sort of the
\* positions in events
insert_by_timestamp(sorted_events, event) ==
    The({ SubSeq(sorted_events, 1, at) \o <<event>>
            \o SubSeq(sorted_events, at + 1, Len(sorted_events)) :
          at \in {Cardinality({ i \in DOMAIN sorted_events :
                                  ~FLess(event.timestamp, sorted_events[i].timestamp) })} })

RECURSIVE sorted_by_timestamp(_, _)
sorted_by_timestamp(sorted_events, events_left) ==
    IF events_left = <<>> THEN sorted_events
    ELSE The({ sorted_by_timestamp(longer, Tail(events_left)) :
               longer \in {insert_by_timestamp(sorted_events, Head(events_left))} })

\* max(a, b) of two floats
fmax(a, b) == IF FLess(a, b) THEN b ELSE a

\* event['timestamp'] - current['timestamp'] < time_window
within_or_at_time_window(current, event, time_window) ==
    FLeq(FSub(event.timestamp, current.timestamp), time_window)

within_time_window(current, event, time_window) ==
    FLess(FSub(event.timestamp, current.timestamp), time_window)

\* current after the event was merged into it
merged_into_summing_scores(current, event) ==
    [current EXCEPT !.signals = @ \o event.signals,
                    !.signal_types = @ \cup event.signal_types,
                    !.raw_score = FAdd(@, event.raw_score),
                    !.score = FAdd(@, event.score),
                    !.num_signals = @ + event.num_signals]

merged_into(current, event) ==
    [current EXCEPT !.signals = @ \o event.signals,
                    !.signal_types = @ \cup event.signal_types,
                    !.raw_score = FAdd(@, event.raw_score),
                    !.score = fmax(@, event.score),
                    !.num_signals = @ + event.num_signals]

\* The loop of merge_nearby_events over sorted_events[1:].  current is a
\* shallow copy of the event at position owner of the caller's list, so
\* its list of signals is that event's list: extending it extends both.
RECURSIVE merge_events(_, _, _, _, _, _)
merge_events(input, merged, current, owner, order, time_window) ==
    IF order = <<>> THEN [merged |-> Append(merged, current), events |-> input]
    ELSE The({ IF within_time_window(current, event, time_window)
               THEN The({ merge_events([input EXCEPT ![owner].signals = larger.signals],
                                       merged, larger, owner, Tail(order), time_window) :
                          larger \in {merged_into(current, event)} })
               ELSE merge_events(input, Append(merged, current), event, Head(order),
                                 Tail(order), time_window) :
               event \in {input[Head(order)]} })

\* the positions in events of sorted_events
timestamp_order(input) ==
    The({ [i \in DOMAIN sorted_events |-> sorted_events[i].at] :
          sorted_events \in {sorted_by_timestamp(<<>>,
                                 [i \in DOMAIN input |->
                                    [at |-> i, timestamp |-> input[i].timestamp]])} })

\* what merge_nearby_events returns (merged) and what it leaves of the
\* caller's list (events)
merged_nearby(input, time_window) ==
    IF input = <<>> THEN [merged |-> <<>>, events |-> input]
    ELSE The({ merge_events(input, <<>>, input[Head(order)], Head(order), Tail(order),
                            time_window) :
               order \in {timestamp_order(input)} })

\* SignalFusion.merge_nearby_events, called with the caller's list input
merge_nearby_events(input, time_window) ==
    /\ op' = "merge_nearby_events"
    /\ arg' = [events |-> input, time_window |-> time_window]
    /\ \E result \in {merged_nearby(input, time_window)} :
        /\ ret' = [raised |-> FALSE, value |-> result.merged]
        /\ events' = result.events
    /\ errors' = <<>>
    /\ warned' = <<>>
    /\ UNCHANGED <<kickoff_time, half_time_marker, full_time_marker, config, pre>>

\* ------------------------------------------------- exporting fused events
\* the characters of the type tags and signal types
Spelling ==
    [audio |-> <<"a", "u", "d", "i", "o">>,
     audio_spike |-> <<"a", "u", "d", "i", "o", "_", "s", "p", "i", "k", "e">>,
     whistle |-> <<"w", "h", "i", "s", "t", "l", "e">>,
     yolo |-> <<"y", "o", "l", "o">>,
     ball_near_goal |-> <<"b", "a", "l", "l", "_", "n", "e", "a", "r", "_", "g", "o", "a", "l">>,
     flow |-> <<"f", "l", "o", "w">>,
     scene_cut |-> <<"s", "c", "e", "n", "e", "_", "c", "u", "t">>,
     json |-> <<"j", "s", "o", "n">>,
     goal |-> <<"g", "o", "a", "l">>,
     big_save |-> <<"b", "i", "g", "_", "s", "a", "v", "e">>,
     save |-> <<"s", "a", "v", "e">>,
     commentary |-> <<"c", "o", "m", "m", "e", "n", "t", "a", "r", "y">>,
     scene_cuts |-> <<"s", "c", "e", "n", "e", "_", "c", "u", "t", "s">>]

\* ' '.join(types), the types in the order the list has them
RECURSIVE joined(_)
joined(types) ==
    IF types = {} THEN <<>>
    ELSE LET first == CHOOSE type \in types : TRUE
         IN  IF types = {first} THEN Spelling[first]
             ELSE Spelling[first] \o <<" ">> \o joined(types \ {first})

\* word in text
contains(text, word) ==
    \E i \in 1..(Len(text) - Len(word) + 1) : SubSeq(text, i, i + Len(word) - 1) = word

\* the event type that export_to_json_events derives from the signals
event_type_whistle_last(types, score) ==
    IF contains(joined(types), Spelling["goal"]) THEN "goal"
    ELSE IF contains(joined(types), Spelling["save"])
            \/ contains(joined(types), Spelling["big_save"]) THEN "save"
    ELSE IF "audio_spike" \in types /\ FLess(FromInt(3), score) THEN "goal_like"
    ELSE IF "whistle" \in types THEN "foul"
    ELSE "highlight"

event_type(types, score) ==
    IF contains(joined(types), Spelling["goal"]) THEN "goal"
    ELSE IF contains(joined(types), Spelling["save"])
            \/ contains(joined(types), Spelling["big_save"]) THEN "save"
    ELSE IF "whistle" \in types THEN "foul"
    ELSE IF "audio_spike" \in types /\ FLess(FromInt(3), score) THEN "goal_like"
    ELSE "highlight"

\* the JSON event of the i-th fused event; its id is "auto_" and i
json_event(event, i) ==
    [id |-> <<"auto_", i>>,
     timestamp |-> event.timestamp,
     minute |-> int(FDiv(event.timestamp, FromInt(60))),
     type |-> event_type(event.signal_types, event.score),
     confidence |-> event.score,
     signals |-> [j \in DOMAIN event.signals |-> event.signals[j].type],
     auto_detected |-> TRUE]

\* SignalFusion.export_to_json_events, called with the caller's list input
export_to_json_events(input) ==
    /\ op' = "export_to_json_events"
    /\ arg' = [events |-> input]
    /\ ret' = [raised |-> FALSE,
               value |-> [i \in DOMAIN input |-> json_event(input[i], i)]]
    /\ events' = input
    /\ errors' = <<>>
    /\ warned' = <<>>
    /\ UNCHANGED <<kickoff_time, half_time_marker, full_time_marker, config, pre>>

\* ---------------------------------------------- the events of a detection
\* a configuration whose audio weight lets an audio spike score above 3
LoudConfig == FusionConfig(Some([audio |-> Decimal(40, 1)]), None, None)

DetectionConfigs == FusionConfigs \cup {LoudConfig}

\* a JSON event of a save, alone, with a whistle in its second, and after
\* the JSON event of a goal
SavedShot == Detection(Some(Decimal(114, 1)), Some("big_save"), None, None, None, None)

SaveSignals ==
    { << <<"json", <<SavedShot>> >> >>,
      << <<"json", <<SavedShot>> >>, <<"whistle", <<Detections.whistle[1]>> >> >>,
      << <<"json", <<Detections.json[1], SavedShot>> >> >> }

\* the keys of a signals dict: the signal types in the order of the table
\* of weights, and 'scene_cuts'
SignalTypes ==
    <<"json", "yolo", "audio", "whistle", "flow", "scene_cut", "commentary", "scene_cuts">>

\* an item of a signals dict given to fuse_signals: a signal type with the
\* first detections of its pool
Detected(signal_type) ==
    { <<signal_type, SubSeq(Detections[signal_type], 1, n)>> :
      n \in 1..Len(Detections[signal_type]) }

\* signals dicts of one signal type or of two, and those of a save
DetectedSignals ==
    UNION { { <<first>> : first \in Detected(SignalTypes[i]) } : i \in DOMAIN SignalTypes }
    \cup UNION { { <<first, second>> : first \in Detected(SignalTypes[i]),
                                       second \in Detected(SignalTypes[j]) } :
                 <<i, j>> \in { p \in (DOMAIN SignalTypes) \X (DOMAIN SignalTypes) :
                                 p[1] < p[2] } }
    \cup SaveSignals

\* top_k of rank_events: None or 0..MaxTopK
MaxTopK == 2
TopKs == {None} \cup { Some(k) : k \in 0..MaxTopK }

\* time_window of merge_nearby_events: the default and two narrower ones
DefaultTimeWindow == Decimal(30, 1)
TimeWindows == {DefaultTimeWindow, Decimal(10, 1), Decimal(5, 1)}

\* a list that was merged is not merged again once an event of it has more
\* than MaxSignals signals
MaxSignals == 4

\* the caller has fused the signals of the detectors: events is its list
\* of fused events
InitEvents ==
    /\ kickoff_time = None
    /\ half_time_marker = None
    /\ full_time_marker = None
    /\ config \in DetectionConfigs
    /\ events \in { fused_events(SignalFusion(config), signals) :
                    signals \in DetectedSignals }
    /\ op = "init"
    /\ arg = None
    /\ pre = [events |-> <<>>, ht |-> None, ft |-> None]
    /\ ret = [raised |-> FALSE, value |-> None]
    /\ errors = <<>>
    /\ warned = <<>>

\* the lists of fused events the caller has: the one it passed last and,
\* when it was ranked or merged, the one returned
FusedLists ==
    {events} \cup (IF op \in {"rank_events", "merge_nearby_events"} THEN {ret.value} ELSE {})

NextEvents ==
    \E input \in FusedLists :
        \/ \E top_k \in TopKs :
             /\ \A i \in DOMAIN input : "rank" \notin DOMAIN input[i]
             /\ rank_events(input, top_k)
        \/ \E time_window \in TimeWindows :
             /\ \A i \in DOMAIN input : Len(input[i].signals) <= MaxSignals
             /\ merge_nearby_events(input, time_window)
        \/ export_to_json_events(input)

SpecEvents == InitEvents /\ [][NextEvents]_vars

\* ------------------------------------------------------------ claims
\* The words of the claims, stated apart from the operators above.
RelatedSets == {{"goal", "goal_like"}, {"big_save", "save"},
                {"chance", "goal_like"}, {"foul", "card"}}

SameOrRelated(t1, t2) ==
    t1 = t2 \/ \E s \in RelatedSets : t1 \in s /\ t2 \in s

\* same or related type, at most the window apart
Conflicting(a, g) ==
    /\ SameOrRelated(a.type, g.type)
    /\ Abs(a.abs_ts - g.abs_ts) <= config.dedupe_window_s

\* auto.confidence >= guided.confidence + 0.15, as Python computes it
Promotes(a, g) == FLeq(FAdd(g.confidence, Decimal(15, 2)), a.confidence)

Called(name) == op = name
Returned == Called("merge_and_dedupe") /\ ~ret.raised

Guided(evs) == {i \in 1..Len(evs) : evs[i].source = "guided"}
Auto(evs) == {i \in 1..Len(evs) : evs[i].source = "auto"}
Count(s, x) == Cardinality({i \in 1..Len(s) : s[i] = x})

\* the list merge_and_dedupe had before it applied max_clips
BeforeLimit == deduplicated(pre.events, config.dedupe_window_s).final_events
Truncated == Returned /\ Len(BeforeLimit) > config.max_clips

\* C1: the list merge_and_dedupe returns holds no two different events of
\* the same or a related type that are less than the window apart.
C1_OneSurvivorPerCluster ==
    Returned =>
        \A i, j \in 1..Len(ret.value) :
            ret.value[i] # ret.value[j] =>
                ~ /\ SameOrRelated(ret.value[i].type, ret.value[j].type)
                  /\ Abs(ret.value[i].abs_ts - ret.value[j].abs_ts) < config.dedupe_window_s

\* no event is in the list twice
Different(evs) == \A i, j \in 1..Len(evs) : i # j => evs[i] # evs[j]

\* C2: when an auto event and a guided event of the list conflict, the one
\* the confidence rule rejects is not in the returned list: the guided one
\* when auto.confidence >= guided.confidence + 0.15, the auto one otherwise
\* (stated for lists of different events of which max_clips cuts none).
C2_ConflictLoserDropped ==
    (Returned /\ ~Truncated /\ Different(pre.events)) =>
        \A i \in Auto(pre.events), j \in Guided(pre.events) :
            LET a == pre.events[i]
                g == pre.events[j]
            IN  Conflicting(a, g) =>
                    IF Promotes(a, g)
                    THEN ~Contains(ret.value, g)
                    ELSE ~Contains(ret.value, a)

\* the list held exactly one guided and one auto event, of the same type
SameTypePair ==
    /\ Len(pre.events) = 2
    /\ Cardinality(Guided(pre.events)) = 1
    /\ pre.events[1].type = pre.events[2].type

PairGap == Abs(pre.events[1].abs_ts - pre.events[2].abs_ts)

\* C3 as stated: a guided and an auto event of the same type exactly
\* dedupe_window_s apart are both retained (max_clips leaving room for two).
C3_WindowExclusive ==
    (Returned /\ SameTypePair /\ PairGap = config.dedupe_window_s /\ config.max_clips >= 2)
        => Len(ret.value) = 2

\* C3 amended: the window is inclusive.  Of a guided and an auto event of
\* the same type at most dedupe_window_s apart one is dropped, also when
\* they are exactly dedupe_window_s apart; a pair farther apart is
\* retained whole (max_clips leaving room for two).
C3_WindowInclusive ==
    (Called("merge_and_dedupe") /\ SameTypePair) =>
        /\ ~ret.raised
        /\ PairGap <= config.dedupe_window_s => Len(ret.value) = 1
        /\ (PairGap > config.dedupe_window_s /\ config.max_clips >= 2) =>
               /\ Len(ret.value) = 2
               /\ \A i \in 1..2 : Contains(ret.value, pre.events[i])

C3_Witness ==
    /\ Returned /\ SameTypePair
    /\ PairGap = config.dedupe_window_s
    /\ config.max_clips >= 2
    /\ Len(ret.value) = 1

\* C4: merge_and_dedupe completes without raising and returns a list
\* (stated for lists of different events).
C4_MergeNeverRaises ==
    (Called("merge_and_dedupe") /\ Different(pre.events)) =>
        /\ ~ret.raised
        /\ Len(ret.value) <= Len(pre.events)

\* C5: a guided record with half and clock and no abs_ts that was loaded
\* while no kickoff time was known is in the list after set_kickoff_time(k),
\* with abs_ts = compute_absolute_time(half, clock, k).
C5_DeferredRecordResolved ==
    Called("set_kickoff_time") =>
        \A n \in 1..Len(warned) :
            LET r == warned[n]
            IN  (r.type # None /\ r.half # None /\ r.clock # None) =>
                    \E i \in Guided(events) :
                        /\ events[i].type = Val(r.type)
                        /\ events[i].abs_ts =
                             compute_absolute_time(Val(r.half), Val(r.clock), Val(kickoff_time))

\* the priorities and the key, from the words of C7
Priority(type) ==
    CASE type = "goal" -> 10 [] type = "goal_like" -> 9 [] type = "big_save" -> 8
      [] type = "save" -> 7 [] type = "chance" -> 6 [] type = "card" -> 5
      [] type = "foul" -> 4 [] type = "celebration" -> 3 [] OTHER -> 0

Better(a, b) ==
    \/ Priority(a.type) > Priority(b.type)
    \/ Priority(a.type) = Priority(b.type) /\ FLess(b.confidence, a.confidence)
    \/ Priority(a.type) = Priority(b.type) /\ a.confidence = b.confidence
         /\ a.abs_ts < b.abs_ts

\* an event of the list before the limit that the returned list lacks
Discarded(d) == Count(BeforeLimit, d) > Count(ret.value, d)

\* C6: the returned list never has more than max_clips events, and has
\* exactly max_clips when the deduplicated list had more.
C6_AtMostMaxClips ==
    Returned =>
        /\ Len(ret.value) <= config.max_clips
        /\ Len(BeforeLimit) > config.max_clips => Len(ret.value) = config.max_clips

C6_Witness ==
    /\ Returned
    /\ Len(BeforeLimit) > config.max_clips
    /\ Len(ret.value) = config.max_clips

\* C7: a truncated result is in the order of the key (-priority,
\* -confidence, abs_ts), every retained event is one of the list, no
\* discarded event has a strictly better key than a retained one, and no
\* unlisted type is retained while a listed type is discarded.
C7_TruncationKeepsBest ==
    Truncated =>
        /\ \A i, j \in 1..Len(ret.value) : i < j => ~Better(ret.value[j], ret.value[i])
        /\ \A i \in 1..Len(ret.value) : Count(ret.value, ret.value[i]) <= Count(BeforeLimit, ret.value[i])
        /\ \A k \in 1..Len(BeforeLimit), i \in 1..Len(ret.value) :
              Discarded(BeforeLimit[k]) =>
                  /\ ~Better(BeforeLimit[k], ret.value[i])
                  /\ ~(Priority(ret.value[i].type) = 0 /\ Priority(BeforeLimit[k].type) > 0)

\* truncation went by the key, not by time or by confidence alone: an
\* earlier event of higher confidence was discarded for one of higher priority
C7_Witness ==
    /\ Truncated
    /\ \E k \in 1..Len(BeforeLimit), i \in 1..Len(ret.value) :
          /\ Discarded(BeforeLimit[k])
          /\ BeforeLimit[k].abs_ts < ret.value[i].abs_ts
          /\ FLeq(BeforeLimit[k].confidence, ret.value[i].confidence)
          /\ Priority(BeforeLimit[k].type) = Priority(ret.value[i].type)

\* some event of the list is later than one after it
Unsorted(evs) == \E i, j \in 1..Len(evs) : i < j /\ evs[i].abs_ts > evs[j].abs_ts

\* C8: when the deduplicated list has at most max_clips events the result
\* is sorted by abs_ts ascending, and the processor's list is the result.
C8_SortedByTimestamp ==
    (Returned /\ ~Truncated) =>
        /\ \A i \in 1..(Len(ret.value) - 1) : ret.value[i].abs_ts <= ret.value[i + 1].abs_ts
        /\ events = ret.value

C8_Witness ==
    /\ Returned /\ ~Truncated
    /\ Len(ret.value) >= 2
    /\ Unsorted(pre.events)
    /\ Len(ret.value) = Len(pre.events)
    /\ events = ret.value

\* a guided event of the list no auto event of the list conflicts with
Unconflicted(g) ==
    /\ g.source = "guided"
    /\ \A i \in Auto(pre.events) : ~Conflicting(pre.events[i], g)

\* C9 as stated: every guided event without a conflicting auto event is in
\* the returned list with its type, abs_ts and confidence.
C9_UnconflictedGuidedReturned ==
    Returned =>
        \A j \in 1..Len(pre.events) :
            Unconflicted(pre.events[j]) =>
                \E i \in 1..Len(ret.value) :
                    /\ ret.value[i].source = "guided"
                    /\ ret.value[i].type = pre.events[j].type
                    /\ ret.value[i].abs_ts = pre.events[j].abs_ts
                    /\ ret.value[i].confidence = pre.events[j].confidence

\* C9 amended: every guided event with no auto event of the same or a
\* related type at most dedupe_window_s away is, after merge_and_dedupe, in
\* the processor's list (the returned list when the call returns) as it
\* was, unless the merged list had more than max_clips events and the
\* ranking cut it.
C9_UnconflictedGuidedKept ==
    Called("merge_and_dedupe") =>
        \A j \in 1..Len(pre.events) :
            Unconflicted(pre.events[j]) =>
                \/ Count(events, pre.events[j]) >= Count(pre.events, pre.events[j])
                \/ Truncated /\ Discarded(pre.events[j])

\* a guided event stayed while an auto event near it, of an unrelated
\* type and of a confidence that would replace it, was added
C9_Witness ==
    /\ Returned /\ ~Truncated
    /\ \E j \in Guided(pre.events), i \in Auto(pre.events) :
          /\ Unconflicted(pre.events[j])
          /\ Abs(pre.events[i].abs_ts - pre.events[j].abs_ts) <= config.dedupe_window_s
          /\ Promotes(pre.events[i], pre.events[j])
          /\ Contains(ret.value, pre.events[j])
          /\ Contains(ret.value, pre.events[i])

\* C10: when a record of the list fails validation, load_guided_events
\* returns failure and leaves the event list and both markers as they were.
C10_LoadAllOrNothing ==
    (Called("load_guided_events") /\ errors # <<>>) =>
        /\ ret.value = FALSE
        /\ events = pre.events
        /\ half_time_marker = pre.ht
        /\ full_time_marker = pre.ft

\* the list of the failed call began with a record that passes the schema
\* (the first error is about the second record), and the processor held
\* events and a marker
C10_Witness ==
    /\ Called("load_guided_events")
    /\ errors # <<>> /\ errors[1][1] = 1
    /\ ret.value = FALSE
    /\ events # <<>> /\ events = pre.events
    /\ full_time_marker # None /\ full_time_marker = pre.ft

\* the events the last call appended to the list
Added == SubSeq(events, Len(pre.events) + 1, Len(events))

\* a record the claim wants skipped: no explicit abs_ts while no kickoff
\* time is set, or a timestamp string that is not "HH:MM:SS"
ToBeSkipped(r) ==
    \/ r.abs_ts.kind = "absent" /\ kickoff_time = None
    \/ r.abs_ts.kind = "str" /\ Len(r.abs_ts.parts) # 3

\* C11: no event is created with a defaulted timestamp.  A call of
\* load_guided_events or add_auto_detected_events adds no event for a record
\* without abs_ts given while no kickoff time is set, nor for a record whose
\* timestamp cannot be parsed (so it adds at most as many events as it was
\* given other records), and every event of the list has abs_ts >= 0.
C11_NoDefaultedTimestamp ==
    (Called("load_guided_events") \/ Called("add_auto_detected_events")) =>
        /\ Len(Added) <= Cardinality({i \in 1..Len(arg) : ~ToBeSkipped(arg[i])})
        /\ \A i \in 1..Len(events) : events[i].abs_ts >= 0

\* a candidate that carries a type and a number of seconds
CarriesSeconds(c) ==
    /\ c.type # None
    /\ c.abs_ts.kind = "num" \/ "timestamp" \in DOMAIN c

Seconds(c) == IF c.abs_ts.kind = "num" THEN c.abs_ts.val ELSE c.timestamp

\* C12: add_auto_detected_events, given candidates that each carry a type
\* and a number of seconds, appends one event per candidate, in order, with
\* source "auto" and that timestamp, and leaves the events before as they were.
C12_AutoCandidateAppended ==
    (Called("add_auto_detected_events") /\ \A i \in 1..Len(arg) : CarriesSeconds(arg[i])) =>
        /\ SubSeq(events, 1, Len(pre.events)) = pre.events
        /\ Len(Added) = Len(arg)
        /\ \A i \in 1..Len(Added) :
              /\ Added[i].source = "auto"
              /\ Added[i].type = Val(arg[i].type)
              /\ Added[i].abs_ts = Seconds(arg[i])

\* C13: no operation changes the source of an event.  set_kickoff_time,
\* compute_adaptive_padding, apply_feature_flags and validate_clip_durations
\* keep the list's length and each event's source, and every event that
\* merge_and_dedupe returns is an event the list held before the call, with
\* the same source, type, abs_ts and confidence.
C13_SourceImmutable ==
    /\ (\/ Called("set_kickoff_time") \/ Called("compute_adaptive_padding")
        \/ Called("apply_feature_flags") \/ Called("validate_clip_durations")) =>
           /\ Len(events) = Len(pre.events)
           /\ \A i \in 1..Len(events) : events[i].source = pre.events[i].source
    /\ Returned =>
           \A i \in 1..Len(ret.value) : \E j \in 1..Len(pre.events) :
               /\ ret.value[i].source = pre.events[j].source
               /\ ret.value[i].type = pre.events[j].type
               /\ ret.value[i].abs_ts = pre.events[j].abs_ts
               /\ ret.value[i].confidence = pre.events[j].confidence

\* a conflict was resolved for the auto event: it is returned, as it was,
\* and the guided event is gone
C13_Witness ==
    /\ Returned
    /\ \E i \in Auto(pre.events), j \in Guided(pre.events) :
          /\ Conflicting(pre.events[i], pre.events[j])
          /\ Promotes(pre.events[i], pre.events[j])
          /\ Contains(ret.value, pre.events[i])
          /\ ~Contains(ret.value, pre.events[j])

\* the limits of the configuration, with the defaults the claims name
MaxPre == IF config.padding.max_pre = None THEN 15 ELSE config.padding.max_pre[1]
MaxPost == IF config.padding.max_post = None THEN 25 ELSE config.padding.max_post[1]
MinClipLen == IF config.min_clip_len_s = None THEN 6 ELSE config.min_clip_len_s[1]
MaxClipLen == IF config.max_clip_len_s = None THEN 30 ELSE config.max_clip_len_s[1]

\* 0 <= x <= limit
Within(x, limit) == FLeq(FromInt(0), x) /\ FLeq(x, FromInt(limit))

\* C14: after compute_adaptive_padding every event has
\* 0 <= pre_padding <= max_pre and 0 <= post_padding <= max_post.
C14_PaddingWithinLimits ==
    Called("compute_adaptive_padding") =>
        \A i \in 1..Len(events) :
            /\ Within(events[i].pre_padding, MaxPre)
            /\ Within(events[i].post_padding, MaxPost)

\* a foul configured with 20 s before and 30 s after was cut to 15 and 25,
\* and a goal got its bonuses
C14_Witness ==
    /\ Called("compute_adaptive_padding")
    /\ \E i \in 1..Len(events) :
          /\ events[i].type = "foul"
          /\ config.padding.foul_or_card_pre = Some(20)
          /\ config.padding.foul_or_card_post = Some(30)
          /\ events[i].pre_padding = FromInt(15)
          /\ events[i].post_padding = FromInt(25)
    /\ \E i \in 1..Len(events) :
          /\ events[i].type = "goal"
          /\ events[i].pre_padding = FromInt(config.padding.default_pre + 3)

\* pre_padding + post_padding of an event, as the program adds them
Duration(e) == FAdd(e.pre_padding, e.post_padding)

\* C15: validate_clip_durations, for an event whose paddings sum to less
\* than min_clip_len_s, adds the shortfall to post_padding and leaves
\* pre_padding as it was, so that the sum is min_clip_len_s; an event whose
\* sum is min_clip_len_s is left as it was.
C15_ShortClipExtended ==
    Called("validate_clip_durations") =>
        \A i \in 1..Len(pre.events) :
            LET before == pre.events[i]
                after == events[i]
            IN  /\ FLess(Duration(before), FromInt(MinClipLen)) =>
                       /\ after.pre_padding = before.pre_padding
                       /\ after.post_padding =
                            FAdd(before.post_padding, FSub(FromInt(MinClipLen), Duration(before)))
                       /\ Duration(after) = FromInt(MinClipLen)
                /\ Duration(before) = FromInt(MinClipLen) => after = before

\* one event of the list was extended and one, exactly at the minimum, kept
C15_Witness ==
    /\ Called("validate_clip_durations")
    /\ \E i \in 1..Len(pre.events) :
          /\ FLess(Duration(pre.events[i]), FromInt(MinClipLen))
          /\ events[i].post_padding # pre.events[i].post_padding
          /\ events[i].pre_padding # FromInt(0)
    /\ \E i \in 1..Len(pre.events) :
          /\ Duration(pre.events[i]) = FromInt(MinClipLen)
          /\ events[i] = pre.events[i]

\* C16: validate_clip_durations, for an event whose paddings sum to more
\* than max_clip_len_s, leaves paddings whose sum is max_clip_len_s exactly
\* and whose ratio is the one before: new_pre * old_post = new_post * old_pre.
C16_LongClipScaledExactly ==
    Called("validate_clip_durations") =>
        \A i \in 1..Len(pre.events) :
            LET before == pre.events[i]
                after == events[i]
            IN  FLess(FromInt(MaxClipLen), Duration(before)) =>
                    /\ Duration(after) = FromInt(MaxClipLen)
                    /\ FMul(after.pre_padding, before.post_padding)
                         = FMul(after.post_padding, before.pre_padding)

\* every event has min_clip_len_s <= pre_padding + post_padding <= max_clip_len_s
AllValid(evs) ==
    \A i \in 1..Len(evs) :
        /\ FLeq(FromInt(MinClipLen), Duration(evs[i]))
        /\ FLeq(Duration(evs[i]), FromInt(MaxClipLen))

\* C17: validate_clip_durations changes nothing in a list whose events all
\* have a sum within the limits, and the list it leaves is such a list:
\* calling it again changes nothing.
C17_ValidateIdempotent ==
    Called("validate_clip_durations") =>
        /\ AllValid(pre.events) => events = pre.events
        /\ AllValid(events)
        /\ [i \in 1..Len(events) |-> clip_duration(events[i], MinClipLen, MaxClipLen)] = events

\* ---- claims about the fusion of the signals
Fused == Called("fuse_signals") /\ ~ret.raised

\* the fusion engine as the configuration makes it
Fusion == SignalFusion(config)

DefaultFusion ==
    config.detection = [weights |-> None, bucket_size |-> None, min_confidence |-> None]

\* {audio: [{timestamp 10.5, energy 2.3}], whistle: [{timestamp 11.2, confidence 0.8}]}
ScenarioSignals ==
    << <<"audio", <<Detection(Some(Decimal(105, 1)), None, Some(Decimal(23, 1)),
                              None, None, None)>> >>,
       <<"whistle", <<Detection(Some(Decimal(112, 1)), None, None, None, None,
                                Some(Decimal(8, 1)))>> >> >>

\* C18 as stated: fusing the scenario's two candidates with the defaults
\* yields exactly one fused event, with num_signals = 2.
C18_OneFusedEvent ==
    (Fused /\ DefaultFusion /\ arg = ScenarioSignals) =>
        /\ Len(ret.value) = 1
        /\ ret.value[1].num_signals = 2

\* C18 as amended: fusing the scenario's two candidates with the defaults
\* yields exactly two fused events, of bucket 10 (the audio candidate at
\* 10.5) and of bucket 11 (the whistle candidate at 11.2), each with
\* num_signals = 1.
C18_TwoFusedEvents ==
    (Fused /\ DefaultFusion /\ arg = ScenarioSignals) =>
        /\ Len(ret.value) = 2
        /\ ret.value[1].bucket_idx = 10 /\ ret.value[1].num_signals = 1
        /\ ret.value[1].signal_types = {"audio"}
        /\ ret.value[2].bucket_idx = 11 /\ ret.value[2].num_signals = 1
        /\ ret.value[2].signal_types = {"whistle"}

C18_Witness == Fused /\ DefaultFusion /\ arg = ScenarioSignals /\ Len(ret.value) > 0

\* the candidates of the signals in the order they are given
RECURSIVE Candidates(_)
Candidates(signals) ==
    IF signals = <<>> THEN <<>>
    ELSE [i \in 1..Len(Head(signals)[2]) |->
            [type |-> Head(signals)[1], detection |-> Head(signals)[2][i]]]
         \o Candidates(Tail(signals))

\* floor(timestamp / bucket_size) = b, a missing timestamp being 0
FloorIs(candidate, b) ==
    LET quotient == FDiv(get(candidate.detection.timestamp, FromInt(0)), Fusion.bucket_size)
    IN  FLeq(FromInt(b), quotient) /\ FLess(quotient, FromInt(b + 1))

WeightOf(signal_type) ==
    IF signal_type \in DOMAIN Fusion.weights THEN Fusion.weights[signal_type] ELSE FromInt(1)

\* x / range, and 1 when that is more
ClippedRatio(x, range) ==
    LET ratio == FDiv(x, range)
    IN  IF FLeq(ratio, FromInt(1)) THEN ratio ELSE FromInt(1)

\* the normalized confidence of a candidate as the claims give it, a
\* missing measure having the default of the program
Normalized(candidate) ==
    LET d == candidate.detection
    IN  CASE candidate.type = "json" -> FromInt(1)
          [] candidate.type = "audio" -> ClippedRatio(get(d.energy, FromInt(1)), FromInt(3))
          [] candidate.type = "flow" ->
                 ClippedRatio(get(d.magnitude, Decimal(25, 1)), FromInt(10))
          [] candidate.type = "scene_cut" ->
                 ClippedRatio(get(d.difference, FromInt(30)), FromInt(100))
          [] OTHER -> get(d.confidence, Decimal(5, 1))

\* the sum of weight x normalized confidence over candidates, in their order
RECURSIVE WeightedSum(_, _)
WeightedSum(candidates, total) ==
    IF candidates = <<>> THEN total
    ELSE WeightedSum(Tail(candidates),
                     FAdd(total, FMul(WeightOf(Head(candidates).type),
                                      Normalized(Head(candidates)))))

\* the candidates of the call whose floor(timestamp / bucket_size) is b
Members(b) ==
    LET in_bucket(candidate) == FloorIs(candidate, b)
    IN  SelectSeq(Candidates(arg), in_bucket)

\* what C19 says of a fused event apart from its score
AggregatesItsBucket(i) ==
    LET e == ret.value[i]
        members == Members(e.bucket_idx)
    IN  /\ e.num_signals = Len(members)
        /\ [j \in 1..Len(e.signals) |->
              [type |-> e.signals[j].type, detection |-> e.signals[j].detection]] = members
        /\ e.raw_score = WeightedSum(members, FromInt(0))
        /\ \A k \in DOMAIN ret.value : k # i => ret.value[k].bucket_idx # e.bucket_idx

\* C19 as stated: every fused event returned by fuse_signals aggregates
\* exactly the candidates whose floor(timestamp / bucket_size) is its bucket
\* index, no two events having the same bucket: num_signals is their count,
\* raw_score the sum of weight x normalized confidence over them, and
\* score x num_signals = raw_score.
C19_ScoreTimesCount ==
    Fused => \A i \in DOMAIN ret.value :
        /\ AggregatesItsBucket(i)
        /\ FMul(ret.value[i].score, FromInt(ret.value[i].num_signals)) = ret.value[i].raw_score

\* C19 as amended: the same, with score = raw_score / num_signals as the
\* program's float division rounds it (score x num_signals is raw_score up
\* to that rounding, and the unnormalized sum only when num_signals = 1).
C19_ScoreIsQuotient ==
    Fused => \A i \in DOMAIN ret.value :
        /\ AggregatesItsBucket(i)
        /\ ret.value[i].score = FDiv(ret.value[i].raw_score, FromInt(ret.value[i].num_signals))

\* an event of three or more candidates of more than one signal type, whose
\* score is not the unnormalized sum, while another bucket has its own event
C19_Witness ==
    /\ Fused
    /\ \E i \in DOMAIN ret.value :
        /\ ret.value[i].num_signals >= 3
        /\ Cardinality({ret.value[i].signals[j].type : j \in 1..ret.value[i].num_signals}) > 1
        /\ ret.value[i].score # ret.value[i].raw_score
        /\ Len(ret.value) > 1

\* C20: for every candidate of every signal type the confidence that
\* fuse_signals multiplies by the weight is a number in [0,1]: 1.0 for json,
\* energy/3 clipped to 1 for audio, magnitude/10 clipped for flow,
\* difference/100 clipped for scene_cut, the explicit confidence (0.5 when
\* absent) for every other type.
C20_ConfidenceInUnitInterval ==
    Fused => \A i \in DOMAIN Candidates(arg) :
        LET candidate == Candidates(arg)[i]
            confidence == _get_confidence(candidate.detection, candidate.type)
        IN  /\ confidence = Normalized(candidate)
            /\ FLeq(FromInt(0), confidence)
            /\ FLeq(confidence, FromInt(1))

\* the same mapping with its items in every order
Orderings(signals) ==
    { [i \in DOMAIN signals |-> signals[p[i]]] :
        p \in { q \in [DOMAIN signals -> DOMAIN signals] :
                  \A i, j \in DOMAIN signals : i # j => q[i] # q[j] } }

\* the fused events as a set of buckets, each with its timestamp, scores,
\* count and contributing candidates
BucketsOf(fused) ==
    { [bucket_idx |-> fused[i].bucket_idx, timestamp |-> fused[i].timestamp,
       score |-> fused[i].score, raw_score |-> fused[i].raw_score,
       num_signals |-> fused[i].num_signals,
       candidates |-> { fused[i].signals[j] : j \in DOMAIN fused[i].signals }] :
      i \in DOMAIN fused }

\* C21: fuse_signals does not depend on the iteration order of the mapping it
\* is given: every ordering of the same signal type -> candidates mapping
\* yields the same set of buckets, each with the same timestamp, score,
\* raw_score, num_signals and contributing candidates.
C21_OrderIndependent ==
    Fused => \A signals \in Orderings(arg) :
        BucketsOf(fused_events(Fusion, signals)) = BucketsOf(ret.value)


\* ---- claims about the ranking, merging and exporting of fused events
Ranked == Called("rank_events") /\ ~ret.raised

\* an event without its rank
Unranked(event) == [field \in DOMAIN event \ {"rank"} |-> event[field]]

\* the ways to pick the returned events among the given ones, each once
Picks(returned, given) ==
    { p \in [DOMAIN returned -> DOMAIN given] :
        /\ \A i, j \in DOMAIN returned : i # j => p[i] # p[j]
        /\ \A i \in DOMAIN returned : Unranked(returned[i]) = Unranked(given[p[i]]) }

\* C22: rank_events returns events sorted by score, highest first, the rank
\* of each being its 1-based position; with top_k it returns exactly
\* min(top_k, n) of the n events, ranked 1..min(top_k, n) without gaps, and
\* no returned event scores less than an event that was left out.
C22_RankedByScore ==
    Ranked =>
        /\ \A i, j \in DOMAIN ret.value :
             i < j => ~FLess(ret.value[i].score, ret.value[j].score)
        /\ \A i \in DOMAIN ret.value : ret.value[i].rank = i
        /\ Len(ret.value) = IF arg.top_k = None THEN Len(arg.events)
                            ELSE IF Val(arg.top_k) < Len(arg.events) THEN Val(arg.top_k)
                            ELSE Len(arg.events)
        /\ \E p \in Picks(ret.value, arg.events) :
             \A i \in DOMAIN ret.value, j \in DOMAIN arg.events :
                (\A k \in DOMAIN ret.value : p[k] # j)
                    => ~FLess(ret.value[i].score, arg.events[j].score)

\* three events or more of which the two best are returned, the best not
\* being the first of the list
C22_Witness ==
    /\ Ranked
    /\ arg.top_k = Some(2)
    /\ Len(arg.events) >= 3
    /\ Len(ret.value) = 2
    /\ Unranked(ret.value[1]) # Unranked(arg.events[1])
    /\ FLess(ret.value[2].score, ret.value[1].score)


Merged == Called("merge_nearby_events") /\ ~ret.raised

\* the timestamps of the events from the earliest to the latest
TimestampsInOrder(given) ==
    LET p == CHOOSE q \in [DOMAIN given -> DOMAIN given] :
                /\ \A i, j \in DOMAIN given : i # j => q[i] # q[j]
                /\ \A i, j \in DOMAIN given :
                     i < j => ~FLess(given[q[j]].timestamp, given[q[i]].timestamp)
    IN  [i \in DOMAIN given |-> given[p[i]].timestamp]

\* the sweep: the position of the kept event that the event at each
\* position of the timestamp order belongs to
KeptOf(timestamps, time_window) ==
    LET kept[i \in DOMAIN timestamps] ==
            IF i = 1 THEN 1
            ELSE IF FLess(FSub(timestamps[i], timestamps[kept[i - 1]]), time_window)
                 THEN kept[i - 1]
                 ELSE i
    IN  kept

\* the positions that start a kept event
StartsOf(kept) == { i \in DOMAIN kept : kept[i] = i }

\* C23: merge_nearby_events sweeps the events once in timestamp order and
\* folds an event into the kept event exactly when its timestamp minus the
\* kept event's timestamp (as the program subtracts them) is strictly less
\* than time_window; so the output has one event per kept event, with its
\* timestamp, any two output events are at least time_window apart, and the
\* output is sorted by timestamp.
C23_SweepWithStrictWindow ==
    Merged =>
        LET timestamps == TimestampsInOrder(arg.events)
            kept == KeptOf(timestamps, arg.time_window)
            starts == StartsOf(kept)
        IN  /\ Len(ret.value) = Cardinality(starts)
            /\ \A i \in starts :
                 ret.value[Cardinality({ j \in starts : j <= i })].timestamp = timestamps[i]
            /\ \A i, j \in DOMAIN ret.value :
                 i < j => /\ ~FLess(ret.value[j].timestamp, ret.value[i].timestamp)
                          /\ ~FLess(FSub(ret.value[j].timestamp, ret.value[i].timestamp),
                                    arg.time_window)

\* events given out of timestamp order, of which one is folded and another,
\* exactly time_window after the kept event, starts a new one
C23_Witness ==
    /\ Merged
    /\ Len(ret.value) >= 2
    /\ Len(ret.value) < Len(arg.events)
    /\ \E i \in DOMAIN arg.events : \E j \in DOMAIN arg.events :
         i < j /\ FLess(arg.events[j].timestamp, arg.events[i].timestamp)
    /\ \E i \in DOMAIN ret.value : \E j \in DOMAIN ret.value :
         i < j /\ FSub(ret.value[j].timestamp, ret.value[i].timestamp) = arg.time_window


Exported == Called("export_to_json_events") /\ ~ret.raised

\* a type tag contains the word
TagHas(tag, word) ==
    LET text == Spelling[tag]
        sought == Spelling[word]
    IN  \E i \in 1..Len(text) :
            /\ i + Len(sought) - 1 <= Len(text)
            /\ \A j \in 1..Len(sought) : text[i + j - 1] = sought[j]

AboveThree(score) == FLess(FromInt(3), score)

\* the type of C24 as stated, foul and goal_like being for an event whose
\* only type tag is whistle, or audio_spike
TypeWhenAlone(event) ==
    IF \E tag \in event.signal_types : TagHas(tag, "goal") THEN "goal"
    ELSE IF \E tag \in event.signal_types : TagHas(tag, "save") THEN "save"
    ELSE IF event.signal_types = {"whistle"} THEN "foul"
    ELSE IF event.signal_types = {"audio_spike"} /\ AboveThree(event.score) THEN "goal_like"
    ELSE "highlight"

\* the type of C24 as amended, foul and goal_like being for an event that
\* has the type tag whistle, or audio_spike, among its type tags
TypeWhenPresent(event) ==
    IF \E tag \in event.signal_types : TagHas(tag, "goal") THEN "goal"
    ELSE IF \E tag \in event.signal_types : TagHas(tag, "save") THEN "save"
    ELSE IF "whistle" \in event.signal_types THEN "foul"
    ELSE IF "audio_spike" \in event.signal_types /\ AboveThree(event.score) THEN "goal_like"
    ELSE "highlight"

\* C24 as stated: export_to_json_events gives each event the type goal if any
\* contributing type tag contains "goal"; else save if any contains "save";
\* else foul only when whistle is the only contributing type; else goal_like
\* when an audio spike is the only contributor and score > 3.0; otherwise
\* highlight.
C24_FoulWhenWhistleAlone ==
    Exported =>
        /\ Len(ret.value) = Len(arg.events)
        /\ \A i \in DOMAIN ret.value : ret.value[i].type = TypeWhenAlone(arg.events[i])

\* C24 as amended: the same priority, with foul when whistle is one of the
\* contributing type tags, and goal_like when audio_spike is one of them and
\* score > 3.0.
C24_FoulWhenWhistlePresent ==
    Exported =>
        /\ Len(ret.value) = Len(arg.events)
        /\ \A i \in DOMAIN ret.value : ret.value[i].type = TypeWhenPresent(arg.events[i])

\* a foul of an event that has whistle and audio_spike among its type tags
\* and a score above 3.0
C24_Witness ==
    /\ Exported
    /\ \E i \in DOMAIN ret.value :
        /\ ret.value[i].type = "foul"
        /\ {"whistle", "audio_spike"} \subseteq arg.events[i].signal_types
        /\ AboveThree(arg.events[i].score)


\* C25: every event that export_to_json_events makes of a fused event has a
\* confidence (the fused score) in [0,1].
C25_EventConfidenceInUnitInterval ==
    Exported => \A i \in DOMAIN ret.value :
        /\ FLeq(FromInt(0), ret.value[i].confidence)
        /\ FLeq(ret.value[i].confidence, FromInt(1))



\* the positions of the events in the order of the sweep: by timestamp,
\* events with the same timestamp in the order given
SweepOrder(given) ==
    CHOOSE q \in [DOMAIN given -> DOMAIN given] :
        /\ \A i, j \in DOMAIN given : i # j => q[i] # q[j]
        /\ \A i, j \in DOMAIN given :
             i < j => \/ FLess(given[q[i]].timestamp, given[q[j]].timestamp)
                      \/ /\ given[q[i]].timestamp = given[q[j]].timestamp
                         /\ q[i] < q[j]

\* the events folded into the kept event that starts at a position of the
\* sweep, in the order of the sweep
FoldedAt(given, time_window, start) ==
    LET order == SweepOrder(given)
        swept == [i \in DOMAIN given |-> given[order[i]]]
        kept == KeptOf([i \in DOMAIN given |-> swept[i].timestamp], time_window)
        folded(i) == kept[i] = start
    IN  SelectSeq([i \in DOMAIN given |-> [at |-> i, event |-> swept[i]]],
                  LAMBDA e : folded(e.at))

RECURSIVE RawScoreOf(_)
RawScoreOf(folded) ==
    IF Len(folded) = 1 THEN folded[1].event.raw_score
    ELSE FAdd(RawScoreOf(SubSeq(folded, 1, Len(folded) - 1)),
              folded[Len(folded)].event.raw_score)

RECURSIVE CountOf(_)
CountOf(given) ==
    IF given = <<>> THEN 0 ELSE given[1].num_signals + CountOf(Tail(given))

RECURSIVE SignalsOf(_)
SignalsOf(folded) ==
    IF folded = <<>> THEN <<>> ELSE folded[1].event.signals \o SignalsOf(Tail(folded))

\* x + y and the distance of x and y as real numbers, without rounding
ExactPlus(x, y) ==
    LET k == Max(x.k, y.k)
    IN  Number(BAdd(BShl(x.n, k - x.k), BShl(y.n, k - y.k)), k)

ExactGap(x, y) ==
    LET k == Max(x.k, y.k)
    IN  IF FLess(x, y) THEN Number(BSub(BShl(y.n, k - y.k), BShl(x.n, k - x.k)), k)
        ELSE Number(BSub(BShl(x.n, k - x.k), BShl(y.n, k - y.k)), k)

RECURSIVE ExactTotal(_)
ExactTotal(given) ==
    IF given = <<>> THEN FromInt(0)
    ELSE ExactPlus(given[1].raw_score, ExactTotal(Tail(given)))

\* x and y are as near as the roundings of a number of float additions
\* leave their results: within that number of units of 2^-52 of x
NearAfter(x, y, additions) ==
    LET gap == ExactGap(x, y)
    IN  FCmp(Number(gap.n, gap.k - 52), Number(BMulSmall(x.n, additions), x.k)) <= 0

\* what C27 says of each returned event, and of the num_signals and the
\* scores of the list: the event has the sum of the raw_scores of the events
\* folded into it (as the program adds them, in the order of the sweep) as
\* raw_score, the sum of their num_signals as num_signals, the highest of
\* their scores as score, and their lists of signals one after the other as
\* signals; the num_signals of the output add up to those of the input and
\* no output score is above the highest input score
FoldedAsOneEvent ==
    LET given == arg.events
        kept == KeptOf(TimestampsInOrder(given), arg.time_window)
        starts == StartsOf(kept)
    IN  /\ Len(ret.value) = Cardinality(starts)
        /\ \A start \in starts :
             LET out == ret.value[Cardinality({ j \in starts : j <= start })]
                 folded == FoldedAt(given, arg.time_window, start)
             IN  /\ out.raw_score = RawScoreOf(folded)
                 /\ out.num_signals =
                      CountOf([i \in DOMAIN folded |-> folded[i].event])
                 /\ \E i \in DOMAIN folded : out.score = folded[i].event.score
                 /\ \A i \in DOMAIN folded : FLeq(folded[i].event.score, out.score)
                 /\ out.signals = SignalsOf(folded)
        /\ CountOf(ret.value) = CountOf(given)
        /\ \A k \in DOMAIN ret.value : \E i \in DOMAIN given :
             FLeq(ret.value[k].score, given[i].score)

\* C27 as stated: each event that merge_nearby_events returns has the sum
\* of the raw_scores of the events folded into it as raw_score, the sum of
\* their num_signals as num_signals, the highest of their scores as score
\* and the concatenation of their signals as signals; the raw_scores of the
\* returned list and those of the given list have the same total, and so
\* have the num_signals, and no output score is above the highest input
\* score.
C27_TotalsTheSame ==
    Merged =>
        /\ FoldedAsOneEvent
        /\ ExactTotal(ret.value) = ExactTotal(arg.events)

\* C27 as amended: the same, except that the raw_score of a returned event
\* is the float sum of the folded raw_scores, rounded at each addition, so
\* that the total of raw_score over the returned list is that of the given
\* list only up to those roundings (each at most 2^-52 of the total).
C27_FoldedSumsAndMaximum ==
    Merged =>
        /\ FoldedAsOneEvent
        /\ NearAfter(ExactTotal(arg.events), ExactTotal(ret.value),
                     Len(arg.events) - Len(ret.value))

\* three events or more are folded into one, whose score is not that of
\* the first of them, while another event is kept apart, and the additions
\* have rounded: the two totals of raw_score are not the same number
C27_Witness ==
    /\ Merged
    /\ Len(ret.value) >= 2
    /\ \E k \in DOMAIN ret.value :
         \E start \in StartsOf(KeptOf(TimestampsInOrder(arg.events), arg.time_window)) :
            LET folded == FoldedAt(arg.events, arg.time_window, start)
            IN  /\ Len(folded) >= 3
                /\ ret.value[k].signals = SignalsOf(folded)
                /\ ret.value[k].score # folded[1].event.score
                /\ ret.value[k].raw_score # folded[1].event.raw_score
    /\ ExactTotal(ret.value) # ExactTotal(arg.events)


\* C30: merge_nearby_events does not modify the events passed to it: after
\* the call every event of the caller's list has the signals, signal_types,
\* raw_score, score and num_signals it had (len(signals) = num_signals as
\* before), and a second call with the same list and window returns what
\* the first returned.
C30_InputEventsUntouched ==
    [][op' = "merge_nearby_events" =>
          /\ events' = arg'.events
          /\ (/\ op = "merge_nearby_events"
              /\ arg'.events = events
              /\ arg'.time_window = arg.time_window) => ret'.value = ret.value]_vars

\* ---- claims about the kickoff time, the paddings and the merged list
\* C26: set_kickoff_time changes abs_ts only for guided events that have
\* half and clock and no absolute timestamp of their own: auto events and
\* guided events loaded with an explicit abs_ts keep theirs, no event is
\* added or removed, and nothing but abs_ts and the stored kickoff changes.
\* (While no kickoff time is stored every event of the list was loaded with
\* an explicit abs_ts, since a record without one is skipped.)
C26_ExplicitTimestampsKept ==
    [][op' = "set_kickoff_time" =>
          /\ Len(events') = Len(events)
          /\ \A i \in DOMAIN events :
                /\ [events'[i] EXCEPT !.abs_ts = events[i].abs_ts] = events[i]
                /\ events'[i].abs_ts # events[i].abs_ts =>
                      /\ events[i].source = "guided"
                      /\ events[i].half # None /\ events[i].clock # None
                      /\ kickoff_time # None
          /\ UNCHANGED <<half_time_marker, full_time_marker, config>>]_vars


\* C28: compute_adaptive_padding is idempotent while the signals are the
\* same: called again right after it was called, it leaves every event as
\* it is, with the paddings of the first call (the bonuses of a goal are
\* not added a second time).
C28_PaddingIdempotent ==
    [][(op = "compute_adaptive_padding" /\ op' = "compute_adaptive_padding")
          => events' = events]_vars

\* the second of two calls in a row, for a goal that got its bonus before
\* the kick and is within the limits
C28_Witness ==
    /\ Called("compute_adaptive_padding")
    /\ pre.events = events
    /\ \E i \in 1..Len(events) :
          /\ events[i].type = "goal"
          /\ Contains(events[i].signals, "build_up") \/ Contains(events[i].signals, "attack")
          /\ events[i].pre_padding = FromInt(config.padding.default_pre + 3)
          /\ FLess(events[i].pre_padding, FromInt(MaxPre))


\* C29: the list merge_and_dedupe returns never holds an auto event together
\* with a guided event that conflicts with it (same or related type, within
\* dedupe_window_s), however many guided events the auto event conflicts
\* with.
C29_NoConflictingPairReturned ==
    Returned =>
        \A i \in Auto(ret.value), j \in Guided(ret.value) :
            ~Conflicting(ret.value[i], ret.value[j])

====
